---- MODULE Spec2Model ----
(***************************************************************************)
(* Token store of the fabric-token-sdk (package sql/common, TokenDB and    *)
(* TokenTransaction): the TOKENS and OWNERSHIP tables, the atomic write    *)
(* handles built on a database/sql transaction, the non-transactional      *)
(* writers, and the ordered lookups that read the committed tables.        *)
(*                                                                         *)
(* Backend: one of the two SQL databases the store is opened on, both with *)
(* PRIMARY KEY / FOREIGN KEY constraints.  A statement that fails writes   *)
(* nothing.                                                                *)
(*   sqlite: one write transaction at a time.  The first write statement   *)
(*   of a transaction takes the write lock and keeps it until Commit or    *)
(*   Rollback; a write statement of anybody else returns "database is      *)
(*   locked" (here: Locked) and leaves its own transaction open.  After a  *)
(*   statement that fails on a constraint the transaction goes on.         *)
(*   postgres: read committed with row locks.  An INSERT of a key that an  *)
(*   open transaction has written, and an UPDATE of a committed row that   *)
(*   an open transaction has updated, wait until that transaction ends:    *)
(*   the call is blocked and its caller with it.  When blocked callers     *)
(*   wait for each other in a cycle, one of their calls fails (here:       *)
(*   Deadlock).  An UPDATE does not see the rows another open transaction  *)
(*   inserted: it matches nothing and returns.  A statement that fails     *)
(*   aborts its transaction, which undoes its writes and frees its locks:  *)
(*   the later statements fail (here: Aborted) and Commit rolls back and   *)
(*   returns an error.                                                     *)
(* The non-transactional writers run their statements in a transaction of  *)
(* their own (TokenDB.StoreToken, TokenDB.StoreCertifications) or as one   *)
(* statement on the connection pool (TokenDB.DeleteTokens,                 *)
(* TokenDB.StorePublicParams); the callers of the handles run in between.  *)
(* Columns that no modelled reader looks at (issuer_raw, owner_type,       *)
(* owner_identity, ledger_metadata, stored_at) are left out.               *)
(***************************************************************************)
EXTENDS Integers, Sequences, FiniteSets, TLC

\* ------------------------------------------------------------------ bounds
NumHandles == 2
MaxClock == 1

MaxInputs == 3
MaxBatch == 2
MaxItems == 3
MaxStatusCalls == 2

\* ------------------------------------------------------------ input sets
Handles == 1..NumHandles

\* The callers of write statements next to the handles: the sql.Tx that
\* TokenDB.StoreToken and TokenDB.StoreCertifications begin for the call,
\* and the connection of a statement run on db.db.
TxSlot == 0
StmtSlot == -1
Slots == {StmtSlot, TxSlot} \cup Handles
TokenIDs == {<<"T1", 0>>, <<"T2", 0>>}
OwnerRaws == {"alice", "bob"}
WalletIDs == {"", "w1"}
DeletedBys == {"X"}
OwnerLists == {<<>>, <<"w1">>, <<"w1", "w1">>}
NoTime == -1

VARIABLES
    tokens,     \* committed rows of the TOKENS table
    ownership,  \* committed rows of the OWNERSHIP table
    clock,      \* what time.Now() returns
    hstate,     \* per caller: "none", "open", "failed" (postgres: aborted by a
                \* failed statement, not ended yet), "committed", "rolledback"
    hwr,        \* per caller: TOKENS rows written by its sql.Tx (new versions)
    hown,       \* per caller: OWNERSHIP rows inserted by its sql.Tx
    hins,       \* per caller: the records whose TOKENS row its sql.Tx inserted
    hdel,       \* per caller: its Delete calls, <<id, deletedBy, matched a row>>
    hcall,      \* per caller: the call it is in: blocked on a lock of
                \* postgres, or between the statements of a non-transactional
                \* writer and the end of its sql.Tx; idle if none
    last,       \* the call that returned last: [op, h, ids, err]
    pparams,    \* committed rows of the PUBLIC_PARAMS table
    certs,      \* committed rows of the CERTIFICATIONS table
    backend,    \* the database the TokenDB is opened on: "postgres" or "sqlite"
    writer,     \* sqlite: the caller whose sql.Tx holds the write lock, if any
    requests,   \* transaction store: committed token requests, one per tx id
    transactions, \* transaction store: committed transaction records, in order
    validations, \* transaction store: committed validation records
    cache,      \* DB.cache: the entries of the request cache
    listeners,  \* StatusSupport: the registered listeners
    events,     \* per listener: the status events delivered to it, in order
    spc,        \* per executor: the call on the transaction store or the
                \* consistency check it is in, and where; idle if none
    applied,    \* the status updates the backend has applied, in order
    tret        \* what the last call on the transaction store returned

\* The state of the token store and the state of the transaction store.
tokenVars == <<tokens, ownership, clock, hstate, hwr, hown, hins, hdel, hcall,
               last, pparams, certs, backend, writer>>
ttxVars == <<requests, transactions, validations, cache, listeners, events, spc, applied,
             tret>>
vars == <<tokens, ownership, clock, hstate, hwr, hown, hins, hdel, hcall, last,
          pparams, certs, backend, writer, requests, transactions, validations, cache, listeners,
          events,
          spc, applied, tret>>

\* ------------------------------------------------------------ rows, keys
ID(r) == <<r.tx_id, r.idx>>
IDs(rows) == {ID(r) : r \in rows}
RowsOf(rows, id) == {r \in rows : ID(r) = id}
SeqToSet(s) == {s[i] : i \in 1..Len(s)}

\* driver.TokenRecord, as passed to StoreToken
AllTokenRecords ==
    [tx_id : {"T1", "T2"}, idx : {0}, owner_raw : OwnerRaws,
     token_type : {"USD"}, quantity : {"100"}, amount : {100},
     owner_wallet_id : WalletIDs, ledger : {"L"},
     owner : BOOLEAN, auditor : {FALSE}, issuer : {FALSE}]

\* The records the calls are made with: for T1 every combination of the
\* owner flag and the owner wallet id, and a second payload; one record
\* for T2.
TokenRecords ==
    {tr \in AllTokenRecords :
        /\ tr.tx_id = "T2" => tr.owner /\ tr.owner_raw = "bob"
        /\ tr.owner_raw = "bob" => tr.owner_wallet_id = "w1"}

\* The row the INSERT of StoreToken writes: the schema's defaults for the
\* columns the statement does not name.
NewRow(tr) ==
    [tx_id |-> tr.tx_id, idx |-> tr.idx, owner_raw |-> tr.owner_raw,
     token_type |-> tr.token_type, quantity |-> tr.quantity,
     amount |-> tr.amount, owner_wallet_id |-> tr.owner_wallet_id,
     ledger |-> tr.ledger, owner |-> tr.owner, auditor |-> tr.auditor,
     issuer |-> tr.issuer,
     is_deleted |-> FALSE, spent_by |-> "", spent_at |-> NoTime]

\* Mutant: the UPDATE sets spent_by and spent_at and forgets is_deleted.
MarkDeletedKeepsFlag(r, deletedBy, now) ==
    [r EXCEPT !.spent_by = deletedBy, !.spent_at = now]

\* UPDATE ... SET is_deleted = true, spent_by = $1, spent_at = $2
MarkDeleted(r, deletedBy, now) ==
    [r EXCEPT !.is_deleted = TRUE, !.spent_by = deletedBy, !.spent_at = now]

\* ------------------------------------------------------ sql.Tx semantics
Done(h) == hstate[h] \in {"committed", "rolledback"}

\* What the statements of handle h see: the committed rows, with the rows
\* the transaction wrote itself in place of their committed versions.
Overlay(toks, wr) == {r \in toks : ID(r) \notin IDs(wr)} \cup wr
Visible(h) == Overlay(tokens, hwr[h])
VisibleOwnership(h) == ownership \cup hown[h]

\* The databases sql.Open is called on.
Backends == {"postgres", "sqlite"}

\* The sql.Tx of handle h has begun and has not ended.
InProgress(h) == hstate[h] \in {"open", "failed"}

\* The caller c is in no call.
Idle == [at |-> "idle"]

\* sqlite: a write statement of c finds the write lock held by the
\* transaction of another caller.
Busy(c) == backend = "sqlite" /\ writer /= {} /\ writer /= {c}

\* The transaction of g has written the row of id and holds its lock.
Holds(g, id) == hstate[g] = "open" /\ id \in IDs(hwr[g])

\* postgres: the row of id was written by an open transaction other than
\* that of c, which holds its lock until it ends.
LockedByOther(c, id) ==
    /\ backend = "postgres"
    /\ \E g \in Slots : g /= c /\ Holds(g, id)
LockedByAny(id) == LockedByOther(TxSlot, id)

\* postgres: an UPDATE waits for the lock of a committed row only; a row that
\* another transaction inserted and has not committed is not seen at all.
UpdateWaits(c, ids) ==
    \E id \in ids : id \in IDs(tokens) /\ LockedByOther(c, id)

\* A statement that failed on a constraint: postgres aborts the transaction.
Failed(err) == err \in {"Conflict", "ForeignKey"}

\* The callers whose locks the blocked call of c waits for: the holders of
\* the row its statement stands at.  An UPDATE waits at committed rows only.
Blockers(c) ==
    LET p == hcall[c] IN
    IF p.at /= "blocked" THEN {}
    ELSE {g \in Slots \ {c} :
            \E id \in (IF p.op = "DeleteTokens" THEN {p.wait} ELSE p.ids) :
                /\ Holds(g, id)
                /\ p.op \in {"Delete", "DeleteTokens"} => id \in IDs(tokens)}

\* The callers that c waits for, directly or through blocked callers.
RECURSIVE WaitsFor(_, _)
WaitsFor(seen, front) ==
    LET next == (UNION {Blockers(g) : g \in front}) \ seen
    IN  IF next = {} THEN seen ELSE WaitsFor(seen \cup next, next)

\* postgres: the blocked call of c is in a cycle of callers that wait for
\* each other.
Deadlocked(c) == c \in WaitsFor({}, {c})

Ret(op, h, ids, err) == [op |-> op, h |-> h, ids |-> ids, err |-> err]

\* ------------------------------------------------------- StoreToken body
\* Mutant: the precondition is never checked.
NoOwnerNever(tr, owners) == FALSE

\* The precondition of TokenTransaction.StoreToken: an owned token needs an
\* owner wallet id or at least one owner.
NoOwner(tr, owners) ==
    Len(tr.owner_wallet_id) = 0 /\ Len(owners) = 0 /\ tr.owner

\* The loop of INSERTs into OWNERSHIP, one per entry of owners, stopping at
\* the first that fails: PRIMARY KEY (tx_id, idx, wallet_id), FOREIGN KEY
\* (tx_id, idx) REFERENCES TOKENS.  seen: the OWNERSHIP rows the transaction
\* sees; toks: the TOKENS rows it sees; added: the rows inserted so far.
RECURSIVE InsertOwnership(_, _, _, _, _)
InsertOwnership(seen, toks, added, id, owners) ==
    IF owners = <<>> THEN [added |-> added, err |-> "ok"]
    ELSE LET row == <<id, Head(owners)>> IN
         IF id \notin IDs(toks) THEN [added |-> added, err |-> "ForeignKey"]
         ELSE IF row \in seen \cup added THEN [added |-> added, err |-> "Conflict"]
         ELSE InsertOwnership(seen, toks, added \cup {row}, id, Tail(owners))

\* Mutant: the precondition is checked after the INSERT into TOKENS.
StoreTokenStmtsLateCheck(toks, owns, tr, owners) ==
    IF ID(tr) \in IDs(toks)
    THEN [rows |-> {}, owns |-> {}, err |-> "Conflict"]
    ELSE IF NoOwner(tr, owners)
    THEN [rows |-> {NewRow(tr)}, owns |-> {}, err |-> "NoOwner"]
    ELSE LET o == InsertOwnership(owns, toks \cup {NewRow(tr)}, {}, ID(tr), owners)
         IN  [rows |-> {NewRow(tr)}, owns |-> o.added, err |-> o.err]

\* Mutant: the INSERT into TOKENS replaces the row of an existing key.
StoreTokenStmtsUpsert(toks, owns, tr, owners) ==
    IF NoOwner(tr, owners)
    THEN [rows |-> {}, owns |-> {}, err |-> "NoOwner"]
    ELSE LET o == InsertOwnership(owns, toks \cup {NewRow(tr)}, {}, ID(tr), owners)
         IN  [rows |-> {NewRow(tr)}, owns |-> o.added, err |-> o.err]

\* Mutant: the second INSERT of a key is accepted and dropped without an
\* error (INSERT ... ON CONFLICT DO NOTHING).
StoreTokenStmtsIgnore(toks, owns, tr, owners) ==
    IF NoOwner(tr, owners)
    THEN [rows |-> {}, owns |-> {}, err |-> "NoOwner"]
    ELSE IF ID(tr) \in IDs(toks)
    THEN [rows |-> {}, owns |-> {}, err |-> "ok"]
    ELSE LET o == InsertOwnership(owns, toks \cup {NewRow(tr)}, {}, ID(tr), owners)
         IN  [rows |-> {NewRow(tr)}, owns |-> o.added, err |-> o.err]

\* The statements of TokenTransaction.StoreToken run on the tables a
\* transaction sees: the INSERT into TOKENS (PRIMARY KEY (tx_id, idx)), then
\* the OWNERSHIP inserts.  Result: the rows the transaction has written and
\* what StoreToken returns.
StoreTokenStmts(toks, owns, tr, owners) ==
    IF NoOwner(tr, owners)
    THEN [rows |-> {}, owns |-> {}, err |-> "NoOwner"]
    ELSE IF ID(tr) \in IDs(toks)
    THEN [rows |-> {}, owns |-> {}, err |-> "Conflict"]
    ELSE LET o == InsertOwnership(owns, toks \cup {NewRow(tr)}, {}, ID(tr), owners)
         IN  [rows |-> {NewRow(tr)}, owns |-> o.added, err |-> o.err]

\* Mutant: a DELETE FROM instead of the UPDATE.
DeleteStmtPhysical(toks, ids, deletedBy, now) == {}

\* Mutant: the UPDATE skips the rows that are deleted already.
DeleteStmtLiveOnly(toks, ids, deletedBy, now) ==
    {MarkDeleted(r, deletedBy, now) :
        r \in {x \in toks : ID(x) \in ids /\ ~x.is_deleted}}

\* The UPDATE of TokenTransaction.Delete and TokenDB.DeleteTokens run on the
\* rows a transaction sees: the new versions of the rows it matches.
DeleteStmt(toks, ids, deletedBy, now) ==
    {MarkDeleted(r, deletedBy, now) : r \in {x \in toks : ID(x) \in ids}}

\* ------------------------------------------------- atomic write handles
\* The rows of caller c after its transaction ended or was aborted.
Cleared(f, c) == [f EXCEPT ![c] = {}]

\* The write lock of sqlite after the transaction of c has ended.
Released(c) == writer \ {c}

\* TokenDB.NewTokenDBTransaction: db.Begin() and a fresh TokenTransaction.
NewTokenDBTransaction(h) ==
    /\ ~InProgress(h)
    /\ hstate' = [hstate EXCEPT ![h] = "open"]
    /\ last' = Ret("Begin", h, {}, "ok")
    /\ UNCHANGED <<ttxVars, tokens, ownership, clock, hwr, hown, hins, hdel, hcall,
                   pparams, certs, backend, writer>>

\* TokenTransaction.StoreToken on an open handle: the precondition, then the
\* INSERTs on t.tx.  On postgres the INSERT of a key that another open
\* transaction wrote blocks the call, which goes on when that transaction
\* has ended.
StoreTokenOpen(h, tr, owners) ==
    LET s == StoreTokenStmts(Visible(h), VisibleOwnership(h), tr, owners)
        call == [at |-> "blocked", op |-> "StoreToken", ids |-> {ID(tr)},
                 tr |-> tr, owners |-> owners]
        busy == ~NoOwner(tr, owners) /\ Busy(h)
        waits == ~NoOwner(tr, owners) /\ LockedByOther(h, ID(tr))
        wrote == ~NoOwner(tr, owners) /\ ~busy /\ ~waits
        aborted == wrote /\ backend = "postgres" /\ Failed(s.err)
        kept == wrote /\ ~aborted
    IN
    /\ hstate[h] = "open"
    /\ hcall[h] = Idle \/ hcall[h] = call
    /\ hcall' = [hcall EXCEPT ![h] = IF waits THEN call ELSE Idle]
    /\ hwr' = IF aborted THEN Cleared(hwr, h)
              ELSE IF kept THEN [hwr EXCEPT ![h] = @ \cup s.rows] ELSE hwr
    /\ hown' = IF aborted THEN Cleared(hown, h)
               ELSE IF kept THEN [hown EXCEPT ![h] = @ \cup s.owns] ELSE hown
    /\ hins' = IF aborted THEN Cleared(hins, h)
               ELSE IF kept
               THEN [hins EXCEPT ![h] = @ \cup (IF s.rows = {} THEN {} ELSE {tr})]
               ELSE hins
    /\ hdel' = IF aborted THEN Cleared(hdel, h) ELSE hdel
    /\ hstate' = IF aborted THEN [hstate EXCEPT ![h] = "failed"] ELSE hstate
    /\ writer' = IF wrote /\ backend = "sqlite" THEN {h} ELSE writer
    /\ last' = IF waits THEN last
               ELSE Ret("StoreToken", h, {ID(tr)}, IF busy THEN "Locked" ELSE s.err)
    /\ UNCHANGED <<ttxVars, tokens, ownership, clock, pparams, certs, backend>>

\* TokenTransaction.StoreToken on a handle whose transaction a failed
\* statement aborted (postgres): the precondition, then the INSERT is refused.
StoreTokenFailed(h, tr, owners) ==
    /\ hstate[h] = "failed"
    /\ last' = Ret("StoreToken", h, {ID(tr)},
                   IF NoOwner(tr, owners) THEN "NoOwner" ELSE "Aborted")
    /\ UNCHANGED <<ttxVars, tokens, ownership, clock, hstate, hwr, hown, hins, hdel, hcall,
                   pparams, certs, backend, writer>>

\* TokenTransaction.StoreToken on a handle whose sql.Tx is done: the
\* precondition is checked first, then tx.Exec returns sql.ErrTxDone.
StoreTokenDone(h, tr, owners) ==
    /\ Done(h)
    /\ last' = Ret("StoreToken", h, {ID(tr)},
                   IF NoOwner(tr, owners) THEN "NoOwner" ELSE "IllegalState")
    /\ UNCHANGED <<ttxVars, tokens, ownership, clock, hstate, hwr, hown, hins, hdel, hcall,
                   pparams, certs, backend, writer>>

StoreToken(h, tr, owners) ==
    \/ StoreTokenOpen(h, tr, owners)
    \/ StoreTokenFailed(h, tr, owners)
    \/ StoreTokenDone(h, tr, owners)

\* TokenTransaction.Delete on an open handle: time.Now(), then the UPDATE on
\* t.tx.  On postgres the UPDATE of a committed row that another open
\* transaction wrote blocks the call.
DeleteOpen(h, id, deletedBy) ==
    LET p == hcall[h]
        resumed == /\ p.at = "blocked"
                   /\ p.op = "Delete" /\ p.ids = {id} /\ p.by = deletedBy
        now == IF resumed THEN p.now ELSE clock
        upd == DeleteStmt(Visible(h), {id}, deletedBy, now)
        waits == UpdateWaits(h, {id})
        wrote == ~Busy(h) /\ ~waits
    IN
    /\ hstate[h] = "open"
    /\ p = Idle \/ resumed
    /\ hcall' = [hcall EXCEPT ![h] =
                    IF waits
                    THEN [at |-> "blocked", op |-> "Delete", ids |-> {id},
                          by |-> deletedBy, now |-> now]
                    ELSE Idle]
    /\ hwr' = IF wrote THEN [hwr EXCEPT ![h] = {r \in @ : ID(r) /= id} \cup upd]
              ELSE hwr
    /\ hdel' = IF wrote
               THEN [hdel EXCEPT ![h] =
                        {c \in @ : c[1] /= id} \cup {<<id, deletedBy, upd /= {}>>}]
               ELSE hdel
    /\ writer' = IF wrote /\ backend = "sqlite" THEN {h} ELSE writer
    /\ last' = IF waits THEN last
               ELSE Ret("Delete", h, {id}, IF Busy(h) THEN "Locked" ELSE "ok")
    /\ UNCHANGED <<ttxVars, tokens, ownership, clock, hstate, hown, hins, pparams, certs,
                   backend>>

\* TokenTransaction.Delete on a handle whose transaction is aborted
\* (postgres): the UPDATE is refused.
DeleteFailed(h, id, deletedBy) ==
    /\ hstate[h] = "failed"
    /\ last' = Ret("Delete", h, {id}, "Aborted")
    /\ UNCHANGED <<ttxVars, tokens, ownership, clock, hstate, hwr, hown, hins, hdel, hcall,
                   pparams, certs, backend, writer>>

DeleteDone(h, id, deletedBy) ==
    /\ Done(h)
    /\ last' = Ret("Delete", h, {id}, "IllegalState")
    /\ UNCHANGED <<ttxVars, tokens, ownership, clock, hstate, hwr, hown, hins, hdel, hcall,
                   pparams, certs, backend, writer>>

Delete(h, id, deletedBy) ==
    \/ DeleteOpen(h, id, deletedBy)
    \/ DeleteFailed(h, id, deletedBy)
    \/ DeleteDone(h, id, deletedBy)

\* postgres finds the blocked call of c in a cycle of callers that wait for
\* each other and ends it with an error: the transaction of c is aborted,
\* and the one a non-transactional writer began is over with its call.
DeadlockDetected(c) ==
    /\ hcall[c].at = "blocked"
    /\ Deadlocked(c)
    /\ hcall' = [hcall EXCEPT ![c] = Idle]
    /\ hstate' = [hstate EXCEPT ![c] = IF c \in Handles THEN "failed" ELSE "none"]
    /\ hwr' = Cleared(hwr, c)
    /\ hown' = Cleared(hown, c)
    /\ hins' = Cleared(hins, c)
    /\ hdel' = Cleared(hdel, c)
    /\ last' = Ret(IF c = TxSlot THEN "DBStoreToken" ELSE hcall[c].op,
                   IF c \in Handles THEN c ELSE 0, hcall[c].ids, "Deadlock")
    /\ UNCHANGED <<ttxVars, tokens, ownership, clock, pparams, certs, backend, writer>>

\* TokenTransaction.Commit: tx.Commit().
CommitOpen(h) ==
    /\ hstate[h] = "open"
    /\ hcall[h] = Idle
    /\ tokens' = Visible(h)
    /\ ownership' = VisibleOwnership(h)
    /\ hstate' = [hstate EXCEPT ![h] = "committed"]
    /\ hwr' = Cleared(hwr, h)
    /\ hown' = Cleared(hown, h)
    /\ hins' = Cleared(hins, h)
    /\ hdel' = Cleared(hdel, h)
    /\ writer' = Released(h)
    /\ last' = Ret("Commit", h, IDs(hwr[h]), "ok")
    /\ UNCHANGED <<ttxVars, clock, hcall, pparams, certs, backend>>

\* TokenTransaction.Commit on a handle whose transaction is aborted
\* (postgres): the transaction is rolled back, Commit returns the error and
\* the sql.Tx is done.
CommitFailed(h) ==
    /\ hstate[h] = "failed"
    /\ hstate' = [hstate EXCEPT ![h] = "rolledback"]
    /\ last' = Ret("Commit", h, {}, "Aborted")
    /\ UNCHANGED <<ttxVars, tokens, ownership, clock, hwr, hown, hins, hdel, hcall,
                   pparams, certs, backend, writer>>

\* Mutant: a second Commit is not refused.
CommitDoneSucceeds(h) ==
    /\ Done(h)
    /\ last' = Ret("Commit", h, {}, "ok")
    /\ UNCHANGED <<ttxVars, tokens, ownership, clock, hstate, hwr, hown, hins, hdel, hcall,
                   pparams, certs, backend, writer>>

\* TokenTransaction.Commit on a handle whose sql.Tx is done: sql.ErrTxDone.
CommitDone(h) ==
    /\ Done(h)
    /\ last' = Ret("Commit", h, {}, "IllegalState")
    /\ UNCHANGED <<ttxVars, tokens, ownership, clock, hstate, hwr, hown, hins, hdel, hcall,
                   pparams, certs, backend, writer>>

Commit(h) == CommitOpen(h) \/ CommitFailed(h) \/ CommitDone(h)

\* Mutant: Rollback keeps the rows the transaction wrote.
RollbackOpenKeepsRows(h) ==
    /\ InProgress(h)
    /\ hcall[h] = Idle
    /\ tokens' = Visible(h)
    /\ ownership' = VisibleOwnership(h)
    /\ hstate' = [hstate EXCEPT ![h] = "rolledback"]
    /\ hwr' = Cleared(hwr, h)
    /\ hown' = Cleared(hown, h)
    /\ hins' = Cleared(hins, h)
    /\ hdel' = Cleared(hdel, h)
    /\ writer' = Released(h)
    /\ last' = Ret("Rollback", h, IDs(hwr[h]), "ok")
    /\ UNCHANGED <<ttxVars, clock, hcall, pparams, certs, backend>>

\* TokenTransaction.Rollback: tx.Rollback(), of an aborted transaction too.
RollbackOpen(h) ==
    /\ InProgress(h)
    /\ hcall[h] = Idle
    /\ hstate' = [hstate EXCEPT ![h] = "rolledback"]
    /\ hwr' = Cleared(hwr, h)
    /\ hown' = Cleared(hown, h)
    /\ hins' = Cleared(hins, h)
    /\ hdel' = Cleared(hdel, h)
    /\ writer' = Released(h)
    /\ last' = Ret("Rollback", h, IDs(hwr[h]), "ok")
    /\ UNCHANGED <<ttxVars, tokens, ownership, clock, hcall, pparams, certs, backend>>

RollbackDone(h) ==
    /\ Done(h)
    /\ last' = Ret("Rollback", h, {}, "IllegalState")
    /\ UNCHANGED <<ttxVars, tokens, ownership, clock, hstate, hwr, hown, hins, hdel, hcall,
                   pparams, certs, backend, writer>>

Rollback(h) == RollbackOpen(h) \/ RollbackDone(h)

\* ------------------------------------------- non-transactional writers
\* TokenDB.StoreToken up to the return of tx.StoreToken: db.Begin and the
\* statements of TokenTransaction.StoreToken in a transaction of its own.
\* Without a statement run (the precondition, the write lock of sqlite) the
\* call returns after a Rollback of nothing; on postgres the INSERT of a key
\* that an open transaction wrote blocks the call.
DBStoreToken(tr, owners) ==
    LET s == StoreTokenStmts(tokens, ownership, tr, owners)
        call == [at |-> "blocked", op |-> "StoreToken", ids |-> {ID(tr)},
                 tr |-> tr, owners |-> owners]
        busy == ~NoOwner(tr, owners) /\ Busy(TxSlot)
        waits == ~NoOwner(tr, owners) /\ LockedByAny(ID(tr))
        wrote == ~NoOwner(tr, owners) /\ ~busy /\ ~waits
        aborted == wrote /\ backend = "postgres" /\ Failed(s.err)
    IN
    /\ hcall[TxSlot] = Idle \/ hcall[TxSlot] = call
    /\ hcall' = [hcall EXCEPT ![TxSlot] =
                    IF waits THEN call
                    ELSE IF wrote
                    THEN [at |-> "end", op |-> "StoreToken", ids |-> {ID(tr)},
                          tr |-> tr, owners |-> owners, err |-> s.err]
                    ELSE Idle]
    /\ hstate' = IF wrote
                 THEN [hstate EXCEPT ![TxSlot] = IF aborted THEN "failed" ELSE "open"]
                 ELSE hstate
    /\ hwr' = IF wrote /\ ~aborted THEN [hwr EXCEPT ![TxSlot] = s.rows] ELSE hwr
    /\ hown' = IF wrote /\ ~aborted THEN [hown EXCEPT ![TxSlot] = s.owns] ELSE hown
    /\ writer' = IF wrote /\ backend = "sqlite" THEN {TxSlot} ELSE writer
    /\ last' = IF waits \/ wrote THEN last
               ELSE Ret("DBStoreToken", 0, {ID(tr)},
                        IF busy THEN "Locked" ELSE s.err)
    /\ UNCHANGED <<ttxVars, tokens, ownership, clock, hins, hdel, pparams, certs,
                   backend>>

\* TokenDB.StoreToken from the return of tx.StoreToken: Commit when it
\* succeeded, Rollback when it failed, and the return of the call.
DBStoreTokenEnd ==
    LET p == hcall[TxSlot] IN
    /\ p.at = "end"
    /\ p.op = "StoreToken"
    /\ tokens' = IF p.err = "ok" THEN Visible(TxSlot) ELSE tokens
    /\ ownership' = IF p.err = "ok" THEN VisibleOwnership(TxSlot) ELSE ownership
    /\ hcall' = [hcall EXCEPT ![TxSlot] = Idle]
    /\ hstate' = [hstate EXCEPT ![TxSlot] = "none"]
    /\ hwr' = Cleared(hwr, TxSlot)
    /\ hown' = Cleared(hown, TxSlot)
    /\ writer' = Released(TxSlot)
    /\ last' = Ret("DBStoreToken", 0, p.ids, p.err)
    /\ UNCHANGED <<ttxVars, clock, hins, hdel, pparams, certs, backend>>

\* TokenDB.DeleteTokens: nothing to do for no ids; else time.Now() and one
\* UPDATE on db.db, outside any transaction.  On postgres the UPDATE takes
\* the rows that were there when it began one by one, in an order the
\* backend chooses: at a row that an open transaction wrote it blocks, with
\* the locks of the rows it has updated so far, and goes on from that row
\* when that transaction has ended.
DeleteTokens(deletedBy, ids) ==
    LET set == SeqToSet(ids)
        p == hcall[StmtSlot]
        resumed == /\ p.at = "blocked"
                   /\ p.op = "DeleteTokens" /\ p.ids = set /\ p.by = deletedBy
        now == IF resumed THEN p.now ELSE clock
        seen == IF resumed THEN p.seen ELSE set \cap IDs(tokens)
        had == IF resumed THEN IDs(hwr[StmtSlot]) ELSE {}
        next == IF resumed THEN {p.wait} ELSE {}
        locked == {id \in seen \ had : UpdateWaits(StmtSlot, {id})}
        free == (seen \ had) \ locked
        busy == Len(ids) > 0 /\ Busy(StmtSlot)
        waits == Len(ids) > 0 /\ locked /= {}
    IN
    /\ p = Idle \/ resumed
    /\ next \subseteq free
    /\ IF waits
       THEN \E w \in locked, held \in SUBSET free :
               /\ next \subseteq held
               /\ hcall' = [hcall EXCEPT ![StmtSlot] =
                               [at |-> "blocked", op |-> "DeleteTokens",
                                ids |-> set, by |-> deletedBy, now |-> now,
                                seen |-> seen, wait |-> w]]
               /\ hwr' = [hwr EXCEPT ![StmtSlot] =
                             DeleteStmt(tokens, had \cup held, deletedBy, now)]
       ELSE /\ hcall' = [hcall EXCEPT ![StmtSlot] = Idle]
            /\ hwr' = Cleared(hwr, StmtSlot)
    /\ hstate' = [hstate EXCEPT ![StmtSlot] = IF waits THEN "open" ELSE "none"]
    /\ tokens' = IF Len(ids) = 0 \/ busy \/ waits THEN tokens
                 ELSE {r \in tokens : ID(r) \notin seen}
                        \cup DeleteStmt(tokens, seen, deletedBy, now)
    /\ last' = IF waits THEN last
               ELSE Ret("DeleteTokens", 0, set, IF busy THEN "Locked" ELSE "ok")
    /\ UNCHANGED <<ttxVars, ownership, clock, hown, hins, hdel, pparams, certs,
                   backend, writer>>

\* time.Now() moves on.
Tick ==
    /\ clock < MaxClock
    /\ clock' = clock + 1
    /\ UNCHANGED <<ttxVars, tokens, ownership, hstate, hwr, hown, hins, hdel, hcall, last, pparams, certs, backend, writer>>

\* -------------------------------------------------------------- readers
\* The readers run their query on db.db, outside any transaction: they see
\* the committed tables.  The rows of a result set arrive in an order the
\* backend chooses: every enumeration of the set.
RowOrders(rows) ==
    {o \in [1..Cardinality(rows) -> rows] :
        \A i, j \in 1..Cardinality(rows) : i /= j => o[i] /= o[j]}

\* ci.HasTokens("tx_id", "idx", ids...): (tx_id, idx) IN (ids).
HasTokens(r, ids) == ID(r) \in SeqToSet(ids)

\* Mutant: the query of IsMine without "is_deleted = false".
IsMineAnyState(toks, txID, index) ==
    \E r \in toks : r.tx_id = txID /\ r.idx = index /\ r.owner

\* TokenDB.IsMine: SELECT tx_id ... WHERE tx_id = $1 AND idx = $2 AND
\* is_deleted = false AND owner = true LIMIT 1; no row gives false.
IsMine(toks, txID, index) ==
    \E r \in toks :
        r.tx_id = txID /\ r.idx = index /\ ~r.is_deleted /\ r.owner
        /\ r.tx_id = txID

\* token.Token as the lookups build it, and the nil slot of a result array.
Token(r) == [owner_raw |-> r.owner_raw, type |-> r.token_type,
             quantity |-> r.quantity]
Nil == [owner_raw |-> "<nil>", type |-> "<nil>", quantity |-> "<nil>"]

\* The first position of id in inputs, 0 when it is not there.
Position(inputs, id) ==
    IF \E j \in 1..Len(inputs) : inputs[j] = id
    THEN CHOOSE j \in 1..Len(inputs) :
            inputs[j] = id /\ \A k \in 1..(j - 1) : inputs[k] /= id
    ELSE 0

\* Mutant: the query of GetTokens without "owner = true".
GetTokensQueryAnyOwner(toks, inputs) ==
    {r \in toks : HasTokens(r, inputs) /\ ~r.is_deleted}

\* The rows GetTokens selects.
GetTokensQuery(toks, inputs) ==
    {r \in toks : HasTokens(r, inputs) /\ ~r.is_deleted /\ r.owner}

\* Mutant: a row of GetTokens goes to every position of its id and is
\* counted once per position.
RECURSIVE GetTokensScanAllPositions(_, _, _, _)
GetTokensScanAllPositions(inputs, rows, slots, counter) ==
    IF rows = <<>> THEN [tokens |-> slots, counter |-> counter, err |-> "ok"]
    ELSE LET r == Head(rows)
             hits == {i \in 1..Len(inputs) : inputs[i] = ID(r)} IN
         IF hits = {}
         THEN [tokens |-> slots, counter |-> counter, err |-> "WrongToken"]
         ELSE GetTokensScanAllPositions(inputs, Tail(rows),
                  [i \in 1..Len(inputs) |->
                      IF i \in hits THEN Token(r) ELSE slots[i]],
                  counter + Cardinality(hits))

\* The scan loop of GetTokens: each row goes to the first position of its id.
RECURSIVE GetTokensScan(_, _, _, _)
GetTokensScan(inputs, rows, slots, counter) ==
    IF rows = <<>> THEN [tokens |-> slots, counter |-> counter, err |-> "ok"]
    ELSE LET j == Position(inputs, ID(Head(rows))) IN
         IF j = 0
         THEN [tokens |-> slots, counter |-> counter, err |-> "WrongToken"]
         ELSE GetTokensScan(inputs, Tail(rows),
                            [slots EXCEPT ![j] = Token(Head(rows))], counter + 1)

\* What a counting lookup returns after its scan: NotFound names the first
\* id when no row came, else the first empty slot; no empty slot is the
\* "should not reach this point" panic.
NotFoundOrPanic(inputs, empty, counter) ==
    IF counter = 0 THEN [err |-> "NotFound", key |-> inputs[1]]
    ELSE IF empty /= {}
    THEN [err |-> "NotFound",
          key |-> inputs[CHOOSE j \in empty : \A k \in empty : j <= k]]
    ELSE [err |-> "Panic", key |-> <<>>]

\* TokenDB.GetTokens on the committed rows toks, the result set arriving in
\* the order rows.
GetTokens(inputs, rows) ==
    IF Len(inputs) = 0 THEN [err |-> "ok", key |-> <<>>, tokens |-> <<>>]
    ELSE LET s == GetTokensScan(inputs, rows, [j \in 1..Len(inputs) |-> Nil], 0)
             empty == {j \in 1..Len(inputs) : s.tokens[j] = Nil}
             nf == NotFoundOrPanic(inputs, empty, s.counter)
         IN  IF s.err /= "ok"
             THEN [err |-> s.err, key |-> <<>>, tokens |-> <<>>]
             ELSE IF s.counter /= Len(inputs)
             THEN [err |-> nf.err, key |-> nf.key, tokens |-> <<>>]
             ELSE [err |-> "ok", key |-> <<>>, tokens |-> s.tokens]

\* The rows WhoDeletedTokens selects.
WhoDeletedTokensQuery(toks, inputs) == {r \in toks : HasTokens(r, inputs)}

\* The scan loop of WhoDeletedTokens; a row whose id is not among the inputs
\* is counted and dropped.
RECURSIVE WhoDeletedTokensScan(_, _, _, _)
WhoDeletedTokensScan(inputs, rows, acc, counter) ==
    IF rows = <<>> THEN [acc |-> acc, counter |-> counter]
    ELSE LET j == Position(inputs, ID(Head(rows)))
             r == Head(rows) IN
         WhoDeletedTokensScan(inputs, Tail(rows),
             IF j = 0 THEN acc
             ELSE [acc EXCEPT ![j] = [spentBy |-> r.spent_by,
                                      isSpent |-> r.is_deleted, found |-> TRUE]],
             counter + 1)

\* TokenDB.WhoDeletedTokens.
WhoDeletedTokens(inputs, rows) ==
    IF Len(inputs) = 0
    THEN [err |-> "ok", key |-> <<>>, spentBy |-> <<>>, isSpent |-> <<>>]
    ELSE LET s == WhoDeletedTokensScan(inputs, rows,
                    [j \in 1..Len(inputs) |->
                        [spentBy |-> "", isSpent |-> FALSE, found |-> FALSE]], 0)
             empty == {j \in 1..Len(inputs) : ~s.acc[j].found}
             nf == NotFoundOrPanic(inputs, empty, s.counter)
         IN  IF s.counter /= Len(inputs)
             THEN [err |-> nf.err, key |-> nf.key,
                   spentBy |-> <<>>, isSpent |-> <<>>]
             ELSE [err |-> "ok", key |-> <<>>,
                   spentBy |-> [j \in 1..Len(inputs) |-> s.acc[j].spentBy],
                   isSpent |-> [j \in 1..Len(inputs) |-> s.acc[j].isSpent]]

\* The rows ListAuditTokens selects: auditor = true, deleted or not.
ListAuditTokensQuery(toks, inputs) ==
    {r \in toks : HasTokens(r, inputs) /\ r.auditor}

\* Mutant: a row of ListAuditTokens goes to every position of its id and is
\* counted once.
RECURSIVE ListAuditTokensScanCountRows(_, _, _, _)
ListAuditTokensScanCountRows(inputs, rows, slots, counter) ==
    IF rows = <<>> THEN [tokens |-> slots, counter |-> counter, err |-> "ok"]
    ELSE LET r == Head(rows)
             hits == {i \in 1..Len(inputs) : inputs[i] = ID(r)} IN
         IF hits = {}
         THEN [tokens |-> slots, counter |-> counter, err |-> "WrongToken"]
         ELSE ListAuditTokensScanCountRows(inputs, Tail(rows),
                  [i \in 1..Len(inputs) |->
                      IF i \in hits THEN Token(r) ELSE slots[i]],
                  counter + 1)

\* The scan loop of ListAuditTokens: a row goes to every position of its id
\* and is counted once per position.
RECURSIVE ListAuditTokensScan(_, _, _, _)
ListAuditTokensScan(inputs, rows, slots, counter) ==
    IF rows = <<>> THEN [tokens |-> slots, counter |-> counter, err |-> "ok"]
    ELSE LET r == Head(rows)
             hits == {i \in 1..Len(inputs) : inputs[i] = ID(r)} IN
         IF hits = {}
         THEN [tokens |-> slots, counter |-> counter, err |-> "WrongToken"]
         ELSE ListAuditTokensScan(inputs, Tail(rows),
                  [i \in 1..Len(inputs) |->
                      IF i \in hits THEN Token(r) ELSE slots[i]],
                  counter + Cardinality(hits))

\* TokenDB.ListAuditTokens, the result set arriving in the order rows.
ListAuditTokens(inputs, rows) ==
    IF Len(inputs) = 0 THEN [err |-> "ok", key |-> <<>>, tokens |-> <<>>]
    ELSE LET s == ListAuditTokensScan(inputs, rows,
                                      [j \in 1..Len(inputs) |-> Nil], 0)
             empty == {j \in 1..Len(inputs) : s.tokens[j] = Nil}
             nf == NotFoundOrPanic(inputs, empty, s.counter)
         IN  IF s.err /= "ok"
             THEN [err |-> s.err, key |-> <<>>, tokens |-> <<>>]
             ELSE IF s.counter /= Len(inputs)
             THEN [err |-> nf.err, key |-> nf.key, tokens |-> <<>>]
             ELSE [err |-> "ok", key |-> <<>>, tokens |-> s.tokens]

\* TokenDB.getLedgerToken: the rows go into a map keyed by id; then, in the
\* order of ids, the first id without an entry is NotFound and the first
\* with empty bytes is EmptyToken.  The order of the rows does not matter.
getLedgerToken(toks, ids) ==
    LET tokenMap == {r \in toks : HasTokens(r, ids)}
        bad == {i \in 1..Len(ids) :
                  \/ ids[i] \notin IDs(tokenMap)
                  \/ \E r \in tokenMap : ID(r) = ids[i] /\ Len(r.ledger) = 0}
        first == CHOOSE i \in bad : \A k \in bad : i <= k
    IN  IF Len(ids) = 0 THEN [err |-> "ok", key |-> <<>>, ledgers |-> <<>>]
        ELSE IF bad /= {}
        THEN [err |-> IF ids[first] \notin IDs(tokenMap)
                      THEN "NotFound" ELSE "EmptyToken",
              key |-> ids[first], ledgers |-> <<>>]
        ELSE [err |-> "ok", key |-> <<>>,
              ledgers |-> [i \in 1..Len(ids) |->
                  (CHOOSE r \in tokenMap : ID(r) = ids[i]).ledger]]

\* Mutant: the callback runs while the ledger tokens are being resolved, so
\* the ids before the first unresolved one have had their callback.
GetTokenOutputsStreaming(toks, ids, failAt) ==
    LET g == getLedgerToken(toks, ids)
        good == {i \in 1..Len(ids) :
                   \E r \in toks : ID(r) = ids[i] /\ Len(r.ledger) /= 0}
        n == IF g.err = "ok" THEN Len(ids)
             ELSE (CHOOSE i \in 1..Len(ids) :
                      i \notin good /\ \A k \in 1..(i - 1) : k \in good) - 1
        m == IF failAt \in 1..n THEN failAt ELSE n
    IN  [err |-> IF failAt \in 1..n THEN "Callback" ELSE g.err,
         key |-> IF failAt \in 1..n THEN <<>> ELSE g.key,
         calls |-> [i \in 1..m |->
             <<ids[i], (CHOOSE r \in toks : ID(r) = ids[i]).ledger>>]]

\* TokenDB.GetTokenOutputs: all ledger tokens are resolved first; then the
\* callback is invoked on ids[i], tokens[i] for i = 0, 1, ... and the first
\* error it returns ends the loop.  failAt: the invocation at which the
\* callback returns an error, 0 for a callback that never fails.  calls: the
\* invocations made.
GetTokenOutputs(toks, ids, failAt) ==
    LET g == getLedgerToken(toks, ids)
        n == IF failAt \in 1..Len(ids) THEN failAt ELSE Len(ids)
    IN  IF g.err /= "ok" THEN [err |-> g.err, key |-> g.key, calls |-> <<>>]
        ELSE [err |-> IF failAt \in 1..Len(ids) THEN "Callback" ELSE "ok",
              key |-> <<>>,
              calls |-> [i \in 1..n |-> <<ids[i], g.ledgers[i]>>]]

\* TokenDB.GetTokenInfoAndOutputs, through getLedgerTokenAndMeta: the rows
\* go into a map keyed by id; then, in the order of ids, the first id
\* without an entry is NotFound. Empty ledger bytes are returned like
\* others; the metadata column, read alongside, is left out.
GetTokenInfoAndOutputs(toks, ids) ==
    LET infoMap == {r \in toks : HasTokens(r, ids)}
        bad == {i \in 1..Len(ids) : ids[i] \notin IDs(infoMap)}
    IN  IF Len(ids) = 0 THEN [err |-> "ok", key |-> <<>>, tokens |-> <<>>]
        ELSE IF bad /= {}
        THEN [err |-> "NotFound",
              key |-> ids[CHOOSE i \in bad : \A k \in bad : i <= k],
              tokens |-> <<>>]
        ELSE [err |-> "ok", key |-> <<>>,
              tokens |-> [i \in 1..Len(ids) |->
                  (CHOOSE r \in infoMap : ID(r) = ids[i]).ledger]]

\* ------------------------------------------------ joined readers
\* The wallet_id of a joined row whose token has no OWNERSHIP row.
NullWallet == "<null>"

\* joinOnTokenID: TOKENS LEFT JOIN OWNERSHIP on (tx_id, idx); a token without
\* an OWNERSHIP row gives one joined row with a NULL wallet_id.
LeftJoin(toks, owns) ==
    {[t |-> r, wallet_id |-> o[2]] :
        <<r, o>> \in {p \in toks \X owns : p[2][1] = ID(p[1])}}
    \cup {[t |-> r, wallet_id |-> NullWallet] :
            r \in {x \in toks : \A o \in owns : o[1] /= ID(x)}}

\* driver.QueryTokenDetailsParams, the filters left empty unless given.
Params(walletID, typ, ids, includeDeleted) ==
    [WalletID |-> walletID, TokenType |-> typ, IDs |-> ids,
     IncludeDeleted |-> includeDeleted]

\* ci.HasTokenDetails(params, table), on a row j of the query it is used in:
\* the filters of params that are not empty, conjoined; deleted tokens only
\* on request.  (No call of the token store sets an enrollment id.)  In the
\* queries that join TOKENS with OWNERSHIP (joined) the wallet filter is on
\* the wallet_id of the joined row; the query of SpendableTokensIteratorBy
\* has no join and takes the wallet from owner_wallet_id of the token.
HasTokenDetails(j, params, joined) ==
    /\ \/ params.WalletID = ""
       \/ params.WalletID = IF joined THEN j.wallet_id ELSE j.t.owner_wallet_id
    /\ params.TokenType = "" \/ j.t.token_type = params.TokenType
    /\ Len(params.IDs) = 0 \/ HasTokens(j.t, params.IDs)
    /\ params.IncludeDeleted \/ ~j.t.is_deleted

\* TokenDB.SpendableTokensIteratorBy: the rows of TOKENS, without a join,
\* that HasTokenDetails keeps for the wallet and the type; the fields the
\* selector needs.
SpendableTokensIteratorBy(toks, walletID, typ) ==
    {[tx_id |-> r.tx_id, idx |-> r.idx, token_type |-> r.token_type,
      quantity |-> r.quantity, owner_wallet_id |-> r.owner_wallet_id] :
        r \in {x \in toks :
                 HasTokenDetails([t |-> x], Params(walletID, typ, <<>>, FALSE),
                                 FALSE)}}

\* SUM(amount) over a set of joined rows.
RECURSIVE SumAmount(_)
SumAmount(rows) ==
    IF rows = {} THEN 0
    ELSE LET j == CHOOSE x \in rows : TRUE IN
         j.t.amount + SumAmount(rows \ {j})

\* TokenDB.Balance: SELECT SUM(amount) over the joined rows the filters
\* keep; the NULL sum of no row is 0.
Balance(toks, owns, walletID, typ) ==
    LET rows == {j \in LeftJoin(toks, owns) :
                    HasTokenDetails(j, Params(walletID, typ, <<>>, FALSE), TRUE)}
    IN  IF rows = {} THEN 0 ELSE SumAmount(rows)

\* The query of TokenDB.QueryTokenDetails: the joined rows the filters keep.
QueryTokenDetailsQuery(toks, owns, params) ==
    {j \in LeftJoin(toks, owns) : HasTokenDetails(j, params, TRUE)}

\* driver.TokenDetails as the scan of a joined row fills it.
TokenDetails(j) ==
    [tx_id |-> j.t.tx_id, idx |-> j.t.idx, wallet_id |-> j.wallet_id,
     token_type |-> j.t.token_type, amount |-> j.t.amount,
     is_deleted |-> j.t.is_deleted, spent_by |-> j.t.spent_by]

\* TokenDB.QueryTokenDetails on the rows of its query, in the order they
\* arrive: one driver.TokenDetails per row.  wallet_id is scanned into the
\* string td.OwnerEnrollment: at the row of a token without an OWNERSHIP
\* row the column is NULL, rows.Scan fails, and the call returns the
\* details read so far with the error.
QueryTokenDetails(rows) ==
    LET nulls == {i \in 1..Len(rows) : rows[i].wallet_id = NullWallet}
        n == IF nulls = {} THEN Len(rows)
             ELSE (CHOOSE i \in nulls : \A k \in nulls : i <= k) - 1
    IN  [err |-> IF nulls = {} THEN "ok" ELSE "Scan",
         deets |-> [i \in 1..n |-> TokenDetails(rows[i])]]

\* ------------------------------------------------------ public parameters
\* TokenDB.StorePublicParams: INSERT INTO public_params (raw, stored_at)
\* with stored_at = time.Now(), the table's PRIMARY KEY.  The call that
\* returned carries raw in place of ids.
StorePublicParams(raw) ==
    LET dup == \E p \in pparams : p.stored_at = clock
        err == IF Busy(StmtSlot) THEN "Locked" ELSE IF dup THEN "Conflict" ELSE "ok"
    IN
    /\ pparams' = IF err = "ok" THEN pparams \cup {[raw |-> raw, stored_at |-> clock]}
                  ELSE pparams
    /\ last' = Ret("StorePublicParams", 0, {raw}, err)
    /\ UNCHANGED <<ttxVars, tokens, ownership, clock, hstate, hwr, hown, hins, hdel, hcall, certs,
                   backend, writer>>

\* TokenDB.PublicParams: SELECT raw ... ORDER BY stored_at DESC LIMIT 1; no
\* row gives nil, no error.
PublicParams(pp) ==
    IF pp = {} THEN ""
    ELSE (CHOOSE p \in pp : \A q \in pp : q.stored_at <= p.stored_at).raw

\* ---------------------------------------------------------- certifications
\* A nil *token.ID.
NilID == <<"<nil>", 0>>

\* The error a backend returns for an INSERT that breaks FOREIGN KEY
\* (tx_id, idx) REFERENCES TOKENS, and the one for an INSERT that repeats a
\* PRIMARY KEY: its kind in the taxonomy and its message, word by word.
ForeignKeyViolation(be) ==
    [kind |-> "Backend",
     msg |-> IF be = "postgres"
             THEN <<"violates", "foreign", "key", "constraint">>
             ELSE <<"FOREIGN", "KEY", "constraint", "failed">>]

UniqueViolation(be) ==
    [kind |-> "Conflict",
     msg |-> IF be = "postgres"
             THEN <<"violates", "unique", "constraint">>
             ELSE <<"UNIQUE", "constraint", "failed">>]

\* strings.ToLower, on one word and on a message.
ToLowerWord(w) ==
    CASE w = "FOREIGN" -> "foreign"
      [] w = "KEY" -> "key"
      [] w = "CONSTRAINT" -> "constraint"
      [] w = "UNIQUE" -> "unique"
      [] OTHER -> w

ToLower(msg) == [i \in 1..Len(msg) |-> ToLowerWord(msg[i])]

\* strings.Contains: substr occurs in s at some offset.
Contains(s, substr) ==
    \E off \in 0..(Len(s) - Len(substr)) :
        \A i \in 1..Len(substr) : s[off + i] = substr[i]

\* driver.ErrTokenDoesNotExist
ErrTokenDoesNotExist ==
    [kind |-> "TokenDoesNotExist", msg |-> <<"token", "does", "not", "exist">>]

\* Mutant: the error of the backend is returned as it came.
tokenDBErrorUnmapped(err) == err

\* tokenDBError: an error whose lower-cased message contains "foreign key
\* constraint" becomes ErrTokenDoesNotExist; any other is returned as it
\* came.
tokenDBError(err) ==
    LET e == ToLower(err.msg) IN
    IF Contains(e, <<"foreign", "key", "constraint">>)
    THEN ErrTokenDoesNotExist
    ELSE err

\* The loop of StoreCertifications inside its sql.Tx, over the entries of
\* the map in the order the iteration takes them: a nil id ends it, as does
\* an INSERT that fails on PRIMARY KEY (tx_id, idx) or on FOREIGN KEY
\* (tx_id, idx) REFERENCES TOKENS; the error of the INSERT goes through
\* tokenDBError.  be: the backend the statements run on.
RECURSIVE StoreCertificationsStmts(_, _, _, _, _)
StoreCertificationsStmts(toks, cs, added, batch, be) ==
    IF batch = <<>> THEN [added |-> added, err |-> "ok"]
    ELSE LET e == Head(batch) IN
         IF e.id = NilID THEN [added |-> added, err |-> "InvalidId"]
         ELSE IF e.id \notin IDs(toks)
         THEN [added |-> added,
               err |-> tokenDBError(ForeignKeyViolation(be)).kind]
         ELSE IF \E c \in cs \cup added : c.id = e.id
         THEN [added |-> added,
               err |-> tokenDBError(UniqueViolation(be)).kind]
         ELSE StoreCertificationsStmts(toks, cs, added \cup {e}, Tail(batch), be)

\* The error of sqlite for a write statement that finds the write lock held.
DatabaseLocked == [kind |-> "Locked", msg |-> <<"database", "is", "locked">>]

\* TokenDB.StoreCertifications up to its loop: db.Begin on db.db.
StoreCertifications(batch) ==
    /\ hcall[TxSlot] = Idle
    /\ hcall' = [hcall EXCEPT ![TxSlot] =
                    [at |-> IF batch = <<>> THEN "end" ELSE "loop",
                     op |-> "StoreCertifications",
                     ids |-> {e.id : e \in SeqToSet(batch)}, batch |-> batch,
                     rest |-> batch, added |-> {}, err |-> "ok"]]
    /\ hstate' = [hstate EXCEPT ![TxSlot] = "open"]
    /\ UNCHANGED <<ttxVars, tokens, ownership, clock, hwr, hown, hins, hdel, last,
                   pparams, certs, backend, writer>>

\* Mutant: the INSERTs run on db.db, outside the transaction: an error leaves
\* the certifications inserted before it.
StoreCertificationsNoTx ==
    LET p == hcall[TxSlot]
        e == Head(p.rest)
        busy == e.id /= NilID /\ Busy(TxSlot)
        s == StoreCertificationsStmts(tokens, certs, p.added, <<e>>, backend)
        err == IF busy THEN tokenDBError(DatabaseLocked).kind ELSE s.err
        more == err = "ok" /\ Tail(p.rest) /= <<>>
    IN
    /\ p.at = "loop"
    /\ p.op = "StoreCertifications"
    /\ hcall' = [hcall EXCEPT ![TxSlot] =
                    [p EXCEPT !.at = IF more THEN "loop" ELSE "end",
                              !.rest = Tail(@),
                              !.added = IF busy THEN @ ELSE s.added,
                              !.err = err]]
    /\ certs' = IF busy THEN certs ELSE certs \cup s.added
    /\ UNCHANGED <<ttxVars, tokens, ownership, clock, hstate, hwr, hown, hins, hdel,
                   last, pparams, backend, writer>>

\* One turn of the loop of TokenDB.StoreCertifications: the nil check and the
\* INSERT on tx for the next entry of the map.  The first INSERT takes the
\* write lock of sqlite, or finds it held; an error, which on postgres aborts
\* the transaction, ends the loop.
StoreCertificationsLoop ==
    LET p == hcall[TxSlot]
        e == Head(p.rest)
        busy == e.id /= NilID /\ Busy(TxSlot)
        s == StoreCertificationsStmts(tokens, certs, p.added, <<e>>, backend)
        err == IF busy THEN tokenDBError(DatabaseLocked).kind ELSE s.err
        ran == e.id /= NilID /\ ~busy
        more == err = "ok" /\ Tail(p.rest) /= <<>>
    IN
    /\ p.at = "loop"
    /\ p.op = "StoreCertifications"
    /\ hcall' = [hcall EXCEPT ![TxSlot] =
                    [p EXCEPT !.at = IF more THEN "loop" ELSE "end",
                              !.rest = Tail(@),
                              !.added = IF busy THEN @ ELSE s.added,
                              !.err = err]]
    /\ hstate' = IF ran /\ backend = "postgres" /\ err /= "ok"
                 THEN [hstate EXCEPT ![TxSlot] = "failed"] ELSE hstate
    /\ writer' = IF ran /\ backend = "sqlite" THEN {TxSlot} ELSE writer
    /\ UNCHANGED <<ttxVars, tokens, ownership, clock, hwr, hown, hins, hdel, last,
                   pparams, certs, backend>>

\* TokenDB.StoreCertifications after its loop: Commit, or the Rollback of
\* the deferred function when the loop returned an error, and the return.
StoreCertificationsEnd ==
    LET p == hcall[TxSlot] IN
    /\ p.at = "end"
    /\ p.op = "StoreCertifications"
    /\ certs' = IF p.err = "ok" THEN certs \cup p.added ELSE certs
    /\ hcall' = [hcall EXCEPT ![TxSlot] = Idle]
    /\ hstate' = [hstate EXCEPT ![TxSlot] = "none"]
    /\ writer' = Released(TxSlot)
    /\ last' = Ret("StoreCertifications", 0, p.ids, p.err)
    /\ UNCHANGED <<ttxVars, tokens, ownership, clock, hwr, hown, hins, hdel, pparams,
                   backend>>

\* tokenDBError called on the error err of a backend.
tokenDBErrorOf(err) ==
    /\ last' = [op |-> "tokenDBError", h |-> 0, ids |-> {}, msg |-> err.msg,
                err |-> tokenDBError(err).kind]
    /\ UNCHANGED <<ttxVars, tokens, ownership, clock, hstate, hwr, hown, hins, hdel, hcall, pparams, certs, backend, writer>>

\* Mutant: a row is enough, whatever its bytes.
ExistsCertificationAnyBytes(cs, tokenID) ==
    tokenID /= NilID /\ \E c \in cs : c.id = tokenID

\* TokenDB.ExistsCertification: false for a nil id and for no row, else
\* whether the certification has bytes.
ExistsCertification(cs, tokenID) ==
    IF tokenID = NilID THEN FALSE
    ELSE IF \A c \in cs : c.id /= tokenID THEN FALSE
    ELSE Len((CHOOSE c \in cs : c.id = tokenID).certification) /= 0

\* TokenDB.GetCertifications: the rows go into a map keyed by id; then, in
\* the order of ids, the first id without an entry, or with an empty one,
\* ends the call with an error.
GetCertifications(cs, ids) ==
    LET certificationMap == {c \in cs : c.id \in SeqToSet(ids)}
        bad == {i \in 1..Len(ids) :
                  \/ \A c \in certificationMap : c.id /= ids[i]
                  \/ \E c \in certificationMap :
                        c.id = ids[i] /\ Len(c.certification) = 0}
        first == CHOOSE i \in bad : \A k \in bad : i <= k
    IN  IF Len(ids) = 0
        THEN [err |-> "ok", key |-> <<>>, certifications |-> <<>>]
        ELSE IF bad /= {}
        THEN [err |-> "NotCertified", key |-> ids[first],
              certifications |-> <<>>]
        ELSE [err |-> "ok", key |-> <<>>,
              certifications |-> [i \in 1..Len(ids) |->
                  (CHOOSE c \in certificationMap : c.id = ids[i]).certification]]

\* -------------------------------------------------- transaction store
\* The executors that call the transaction store, and the listeners that
\* register with its StatusSupport.
Executors == {1, 2}
Listeners == {"l1", "l2"}

\* newDB: an empty cache and a StatusSupport without listeners, on a backend
\* without rows.
InitTTX ==
    /\ requests = {}
    /\ transactions = <<>>
    /\ validations = {}
    /\ cache = {}
    /\ listeners = {}
    /\ events = [l \in Listeners |-> <<>>]
    /\ spc = [x \in Executors |-> [at |-> "idle"]]
    /\ applied = <<>>
    /\ tret = [op |-> "Init"]

\* ------------------------------------------------- audit decomposition
\* token.InputStream and token.OutputStream: sequences of
\* [action_index, enrollment_id, type, amount].
FilterByAction(stream, actionIndex) ==
    SelectSeq(stream, LAMBDA t : t.action_index = actionIndex)

ByEnrollmentID(stream, id) ==
    SelectSeq(stream, LAMBDA t : t.enrollment_id = id)

ByType(stream, typ) == SelectSeq(stream, LAMBDA t : t.type = typ)

RECURSIVE Sum(_)
Sum(stream) ==
    IF stream = <<>> THEN 0 ELSE Head(stream).amount + Sum(Tail(stream))

\* The entries of a sequence in the order of their first occurrence.
RECURSIVE deduplicate(_)
deduplicate(source) ==
    IF source = <<>> THEN <<>>
    ELSE LET front == deduplicate(SubSeq(source, 1, Len(source) - 1))
             item == source[Len(source)] IN
         IF item \in SeqToSet(front) THEN front ELSE Append(front, item)

\* The distinct enrollment ids of a stream; an entry without an enrollment
\* id contributes none.
EnrollmentIDs(stream) ==
    deduplicate([i \in 1..Len(SelectSeq(stream, LAMBDA t : t.enrollment_id /= ""))
                   |-> SelectSeq(stream, LAMBDA t : t.enrollment_id /= "")[i].enrollment_id])

\* The distinct token types of a stream.
TokenTypes(stream) == deduplicate([i \in 1..Len(stream) |-> stream[i].type])

\* Mutant: the outputs without an enrollment id are left out.
EmitRecordsNoBurn(anchor, inEIDs, ous, timestamp) ==
    LET outEIDs == EnrollmentIDs(ous)
        outTT == TokenTypes(ous)
        pairs == [k \in 1..(Len(outEIDs) * Len(outTT)) |->
                    [outEID |-> outEIDs[((k - 1) \div Len(outTT)) + 1],
                     tokenType |-> outTT[((k - 1) % Len(outTT)) + 1]]]
        received(pr) == Sum(ByType(ByEnrollmentID(ous, pr.outEID), pr.tokenType))
        kept == SelectSeq(pairs, LAMBDA pr : ~(received(pr) <= 0))
    IN  [k \in 1..Len(kept) |->
            [tx_id |-> anchor,
             sender_eid |-> IF Len(inEIDs) = 1 THEN inEIDs[1] ELSE "",
             recipient_eid |-> kept[k].outEID,
             token_type |-> kept[k].tokenType,
             amount |-> received(kept[k]),
             status |-> "Pending",
             action_type |-> IF Len(inEIDs) = 0 THEN "Issue" ELSE "Transfer",
             timestamp |-> timestamp]]

\* Mutant: a record for every pair, whatever it received.
EmitRecordsAll(anchor, inEIDs, ous, timestamp) ==
    LET outEIDs == Append(EnrollmentIDs(ous), "")
        outTT == TokenTypes(ous)
        pairs == [k \in 1..(Len(outEIDs) * Len(outTT)) |->
                    [outEID |-> outEIDs[((k - 1) \div Len(outTT)) + 1],
                     tokenType |-> outTT[((k - 1) % Len(outTT)) + 1]]]
    IN  [k \in 1..Len(pairs) |->
            [tx_id |-> anchor,
             sender_eid |-> IF Len(inEIDs) = 1 THEN inEIDs[1] ELSE "",
             recipient_eid |-> pairs[k].outEID,
             token_type |-> pairs[k].tokenType,
             amount |-> Sum(ByType(ByEnrollmentID(ous, pairs[k].outEID),
                                   pairs[k].tokenType)),
             status |-> "Pending",
             action_type |-> IF Len(inEIDs) = 0 THEN "Issue"
                             ELSE IF Len(pairs[k].outEID) = 0 THEN "Redeem"
                             ELSE "Transfer",
             timestamp |-> timestamp]]

\* Mutant: what a sender sends to nobody is a Transfer as well.
EmitRecordsBurnAsTransfer(anchor, inEIDs, ous, timestamp) ==
    LET outEIDs == Append(EnrollmentIDs(ous), "")
        outTT == TokenTypes(ous)
        pairs == [k \in 1..(Len(outEIDs) * Len(outTT)) |->
                    [outEID |-> outEIDs[((k - 1) \div Len(outTT)) + 1],
                     tokenType |-> outTT[((k - 1) % Len(outTT)) + 1]]]
        received(pr) == Sum(ByType(ByEnrollmentID(ous, pr.outEID), pr.tokenType))
        kept == SelectSeq(pairs, LAMBDA pr : ~(received(pr) <= 0))
    IN  [k \in 1..Len(kept) |->
            [tx_id |-> anchor,
             sender_eid |-> IF Len(inEIDs) = 1 THEN inEIDs[1] ELSE "",
             recipient_eid |-> kept[k].outEID,
             token_type |-> kept[k].tokenType,
             amount |-> received(kept[k]),
             status |-> "Pending",
             action_type |-> IF Len(inEIDs) = 0 THEN "Issue" ELSE "Transfer",
             timestamp |-> timestamp]]

\* The two inner loops of TransactionRecords for one action: for each
\* outEID of the outputs' enrollment ids followed by "", and each token type
\* of the outputs, a record of what outEID received in that type, unless it
\* received nothing.
EmitRecords(anchor, inEIDs, ous, timestamp) ==
    LET outEIDs == Append(EnrollmentIDs(ous), "")
        outTT == TokenTypes(ous)
        pairs == [k \in 1..(Len(outEIDs) * Len(outTT)) |->
                    [outEID |-> outEIDs[((k - 1) \div Len(outTT)) + 1],
                     tokenType |-> outTT[((k - 1) % Len(outTT)) + 1]]]
        received(pr) == Sum(ByType(ByEnrollmentID(ous, pr.outEID), pr.tokenType))
        kept == SelectSeq(pairs, LAMBDA pr : ~(received(pr) <= 0))
    IN  [k \in 1..Len(kept) |->
            [tx_id |-> anchor,
             sender_eid |-> IF Len(inEIDs) = 1 THEN inEIDs[1] ELSE "",
             recipient_eid |-> kept[k].outEID,
             token_type |-> kept[k].tokenType,
             amount |-> received(kept[k]),
             status |-> "Pending",
             action_type |-> IF Len(inEIDs) = 0 THEN "Issue"
                             ELSE IF Len(kept[k].outEID) = 0 THEN "Redeem"
                             ELSE "Transfer",
             timestamp |-> timestamp]]

\* Mutant: the error of an action comes with the records of the actions
\* before it.
RECURSIVE TransactionRecordsLoopPartial(_, _, _, _)
TransactionRecordsLoopPartial(record, timestamp, actionIndex, txs) ==
    LET ins == FilterByAction(record.inputs, actionIndex)
        ous == FilterByAction(record.outputs, actionIndex)
        inEIDs == EnrollmentIDs(ins)
    IN  IF Len(ins) = 0 /\ Len(ous) = 0 THEN [txs |-> txs, err |-> "ok", iterations |-> actionIndex + 1]
        ELSE IF Len(inEIDs) > 1 THEN [txs |-> txs, err |-> "InvalidAudit",
                                     iterations |-> actionIndex + 1]
        ELSE TransactionRecordsLoopPartial(record, timestamp, actionIndex + 1,
                 txs \o EmitRecords(record.anchor, inEIDs, ous, timestamp))

\* Mutant: an action without inputs and outputs is passed over as long as a
\* later action has some.
RECURSIVE TransactionRecordsLoopSkipGaps(_, _, _, _)
TransactionRecordsLoopSkipGaps(record, timestamp, actionIndex, txs) ==
    LET ins == FilterByAction(record.inputs, actionIndex)
        ous == FilterByAction(record.outputs, actionIndex)
        inEIDs == EnrollmentIDs(ins)
        later == \E t \in SeqToSet(record.inputs) \cup SeqToSet(record.outputs) :
                    t.action_index > actionIndex
    IN  IF Len(ins) = 0 /\ Len(ous) = 0 /\ ~later
        THEN [txs |-> txs, err |-> "ok", iterations |-> actionIndex + 1]
        ELSE IF Len(inEIDs) > 1 THEN [txs |-> <<>>, err |-> "InvalidAudit",
                                     iterations |-> actionIndex + 1]
        ELSE TransactionRecordsLoopSkipGaps(record, timestamp, actionIndex + 1,
                 txs \o EmitRecords(record.anchor, inEIDs, ous, timestamp))

\* The loop of TransactionRecords from actionIndex on, txs being the records
\* of the actions before it: it ends at the first action without inputs and
\* outputs, and fails, returning no record, at the first action whose inputs
\* have more than one enrollment id. `iterations` counts the passes through
\* the loop body, the one that leaves it included.
RECURSIVE TransactionRecordsLoop(_, _, _, _)
TransactionRecordsLoop(record, timestamp, actionIndex, txs) ==
    LET ins == FilterByAction(record.inputs, actionIndex)
        ous == FilterByAction(record.outputs, actionIndex)
        inEIDs == EnrollmentIDs(ins)
    IN  IF Len(ins) = 0 /\ Len(ous) = 0 THEN [txs |-> txs, err |-> "ok", iterations |-> actionIndex + 1]
        ELSE IF Len(inEIDs) > 1 THEN [txs |-> <<>>, err |-> "InvalidAudit",
                                     iterations |-> actionIndex + 1]
        ELSE TransactionRecordsLoop(record, timestamp, actionIndex + 1,
                 txs \o EmitRecords(record.anchor, inEIDs, ous, timestamp))

\* TransactionRecords(record, timestamp).
TransactionRecords(record, timestamp) ==
    TransactionRecordsLoop(record, timestamp, 0, <<>>)

\* A call of TransactionRecords on the audit record at hand.
TransactionRecordsCall ==
    /\ tret.op = "AuditRecord"
    /\ tret' = [op |-> "TransactionRecords", record |-> tret.record,
                res |-> TransactionRecords(tret.record, clock)]
    /\ UNCHANGED <<tokenVars, requests, transactions, validations, cache,
                   listeners, events, spc, applied>>

\* joinIOEIDs(record): the enrollment ids of the inputs, then those of the
\* outputs, without repetition.
joinIOEIDs(record) ==
    deduplicate(EnrollmentIDs(record.inputs) \o EnrollmentIDs(record.outputs))

\* `sent == received` in Movements compares two *big.Int, the results of two
\* calls of Sum: two allocations, never the same pointer, whatever their
\* values.
SamePointer(sent, received) == FALSE

\* Movements(record, created): for each enrollment id of joinIOEIDs and each
\* token type of the outputs, a movement of received - sent, unless the two
\* pointers are the same.
Movements(record, created) ==
    LET eIDs == joinIOEIDs(record)
        tokenTypes == TokenTypes(record.outputs)
        pairs == [k \in 1..(Len(eIDs) * Len(tokenTypes)) |->
                    [eID |-> eIDs[((k - 1) \div Len(tokenTypes)) + 1],
                     tokenType |-> tokenTypes[((k - 1) % Len(tokenTypes)) + 1]]]
        received(pr) == Sum(ByType(ByEnrollmentID(record.outputs, pr.eID), pr.tokenType))
        sent(pr) == Sum(ByType(ByEnrollmentID(record.inputs, pr.eID), pr.tokenType))
        kept == SelectSeq(pairs, LAMBDA pr : ~SamePointer(sent(pr), received(pr)))
    IN  [k \in 1..Len(kept) |->
            [tx_id |-> record.anchor,
             enrollment_id |-> kept[k].eID,
             amount |-> received(kept[k]) - sent(kept[k]),
             token_type |-> kept[k].tokenType,
             timestamp |-> created,
             status |-> "Pending"]]

\* A call of Movements on the audit record at hand.
MovementsCall ==
    /\ tret.op = "AuditRecord"
    /\ tret' = [op |-> "Movements", record |-> tret.record,
                mv |-> Movements(tret.record, clock)]
    /\ UNCHANGED <<tokenVars, requests, transactions, validations, cache,
                   listeners, events, spc, applied>>

\* ------------------------------------------- transaction store: requests
\* The cache of newDB holds 1000 entries; the keys of this model are far
\* fewer, so that no entry is ever evicted.
CacheGet(c, key) ==
    IF \E e \in c : e.key = key
    THEN [ok |-> TRUE, value |-> (CHOOSE e \in c : e.key = key).value]
    ELSE [ok |-> FALSE, value |-> ""]

CacheAdd(c, key, value) ==
    {e \in c : e.key /= key} \cup {[key |-> key, value |-> value]}

\* The backend's GetTokenRequest: the bytes of the request of txID, and no
\* bytes when it has none.
BackendGetTokenRequest(reqs, txID) ==
    IF \E q \in reqs : q.tx_id = txID
    THEN (CHOOSE q \in reqs : q.tx_id = txID).raw
    ELSE ""

\* The points at which an append can fail before it has written anything:
\* req.InputsAndOutputs(), req.Bytes() (AppendTransactionRecord only) and
\* the backend's BeginAtomicWrite.
BeginFailures == {"none", "inputs", "bytes", "begin"}

\* The points at which the backend can fail the statements of an atomic
\* write: AddTokenRequest, the n-th AddTransaction or AddValidationRecord,
\* Commit.
AppendFailures ==
    {[at |-> a, n |-> 0] : a \in {"none", "request", "commit"}}
        \cup {[at |-> "record", n |-> i] : i \in 1..2}

\* Mutant: the statements are not undone when an AddTransaction fails, the
\* request and the records before the failing one stay.
AppendStmtsNoRollback(reqs, rows, anchor, raw, txs, fail) ==
    IF fail.at = "request" THEN [requests |-> reqs, rows |-> rows, err |-> "Backend"]
    ELSE IF \E q \in reqs : q.tx_id = anchor
    THEN [requests |-> reqs, rows |-> rows, err |-> "Conflict"]
    ELSE IF fail.at = "record" /\ fail.n <= Len(txs)
    THEN [requests |-> reqs \cup {[tx_id |-> anchor, raw |-> raw]},
          rows |-> rows \o SubSeq(txs, 1, fail.n - 1), err |-> "Backend"]
    ELSE IF fail.at = "commit"
    THEN [requests |-> reqs, rows |-> rows, err |-> "Backend"]
    ELSE [requests |-> reqs \cup {[tx_id |-> anchor, raw |-> raw]},
          rows |-> rows \o txs, err |-> "ok"]

\* The statements of AppendTransactionRecord on its atomic write:
\* AddTokenRequest, which fails when the backend does or when txID has a
\* request already; one AddTransaction for each record; Commit. A failure
\* before Commit is followed by Rollback, and a failed Commit leaves
\* nothing: the backend is as it was before.
AppendStmts(reqs, rows, anchor, raw, txs, fail) ==
    IF fail.at = "request" THEN [requests |-> reqs, rows |-> rows, err |-> "Backend"]
    ELSE IF \E q \in reqs : q.tx_id = anchor
    THEN [requests |-> reqs, rows |-> rows, err |-> "Conflict"]
    ELSE IF fail.at = "record" /\ fail.n <= Len(txs)
    THEN [requests |-> reqs, rows |-> rows, err |-> "Backend"]
    ELSE IF fail.at = "commit"
    THEN [requests |-> reqs, rows |-> rows, err |-> "Backend"]
    ELSE [requests |-> reqs \cup {[tx_id |-> anchor, raw |-> raw]},
          rows |-> rows \o txs, err |-> "ok"]

\* The log of the writes of a status in the backend: the records of an
\* append are written Pending.
Written(log, txID, status, by, n) ==
    Append(log, [tx |-> txID, status |-> status, by |-> by, n |-> n])

TRet(op, txID, err) == [op |-> op, tx |-> txID, err |-> err]

\* DB.AppendTransactionRecord(req) of executor x, req being [anchor, raw,
\* inputs, outputs], up to d.cache.Add: the inputs and outputs, the bytes
\* and the records of the request, each of which can end the call with its
\* error, as can BeginAtomicWrite; then the bytes go into the cache and the
\* executor goes on to the statements of the atomic write.
AppendTransactionRecord(x, req, fail) ==
    LET record == [anchor |-> req.anchor, inputs |-> req.inputs,
                   outputs |-> req.outputs]
        res == TransactionRecords(record, clock)
        err == IF fail = "inputs" THEN "InputsAndOutputs"
               ELSE IF fail = "bytes" THEN "Marshal"
               ELSE IF res.err /= "ok" THEN res.err
               ELSE IF fail = "begin" THEN "Backend"
               ELSE "ok"
    IN  /\ spc[x].at = "idle"
        /\ IF err /= "ok"
           THEN /\ tret' = TRet("AppendTransactionRecord", req.anchor, err)
                /\ UNCHANGED <<tokenVars, requests, transactions, validations,
                               cache, listeners, events, spc, applied>>
           ELSE /\ cache' = CacheAdd(cache, record.anchor, req.raw)
                /\ spc' = [spc EXCEPT ![x] = [at |-> "append", tx |-> record.anchor,
                                               raw |-> req.raw, txs |-> res.txs]]
                /\ tret' = TRet("AppendTransactionRecordCached", req.anchor, "ok")
                /\ UNCHANGED <<tokenVars, requests, transactions, validations,
                               listeners, events, applied>>

\* DB.AppendTransactionRecord of executor x from w.AddTokenRequest on: the
\* statements of the atomic write, and the return.
AppendTransactionRecordWrite(x, fail) ==
    LET w == AppendStmts(requests, transactions, spc[x].tx, spc[x].raw,
                         spc[x].txs, fail)
    IN  /\ spc[x].at = "append"
        /\ requests' = w.requests
        /\ transactions' = w.rows
        /\ applied' = IF w.err = "ok" /\ Len(spc[x].txs) > 0
                      THEN Written(applied, spc[x].tx, "Pending",
                                   "Append", Len(spc[x].txs))
                      ELSE applied
        /\ spc' = [spc EXCEPT ![x] = [at |-> "idle"]]
        /\ tret' = TRet("AppendTransactionRecord", spc[x].tx, w.err)
        /\ UNCHANGED <<tokenVars, validations, cache, listeners, events>>

\* DB.AppendValidationRecord(txID, tokenRequest, meta, ppHash) of executor
\* x, up to d.cache.Add: BeginAtomicWrite, which can end the call with its
\* error, then the bytes go into the cache.
AppendValidationRecord(x, txID, tokenRequest, meta, fail) ==
    /\ spc[x].at = "idle"
    /\ IF fail = "begin"
       THEN /\ tret' = TRet("AppendValidationRecord", txID, "Backend")
            /\ UNCHANGED <<tokenVars, requests, transactions, validations,
                           cache, listeners, events, spc, applied>>
       ELSE /\ cache' = CacheAdd(cache, txID, tokenRequest)
            /\ spc' = [spc EXCEPT ![x] = [at |-> "validation", tx |-> txID,
                                           raw |-> tokenRequest, meta |-> meta]]
            /\ tret' = TRet("AppendValidationRecordCached", txID, "ok")
            /\ UNCHANGED <<tokenVars, requests, transactions, validations,
                           listeners, events, applied>>

\* DB.AppendValidationRecord of executor x from w.AddTokenRequest on:
\* AddTokenRequest, AddValidationRecord, Commit, and the return.
AppendValidationRecordWrite(x, fail) ==
    LET txID == spc[x].tx
        stored == \E q \in requests : q.tx_id = txID
        err == IF fail.at = "request" THEN "Backend"
               ELSE IF stored THEN "Conflict"
               ELSE IF fail.at \in {"record", "commit"} THEN "Backend"
               ELSE "ok"
    IN  /\ spc[x].at = "validation"
        /\ requests' = IF err = "ok"
                       THEN requests \cup {[tx_id |-> txID, raw |-> spc[x].raw]}
                       ELSE requests
        /\ validations' = IF err = "ok"
                          THEN validations \cup
                                 {[tx_id |-> txID, meta |-> spc[x].meta,
                                   status |-> "Pending"]}
                          ELSE validations
        /\ applied' = IF err = "ok"
                      THEN Written(applied, txID, "Pending", "Append", 1)
                      ELSE applied
        /\ spc' = [spc EXCEPT ![x] = [at |-> "idle"]]
        /\ tret' = TRet("AppendValidationRecord", txID, err)
        /\ UNCHANGED <<tokenVars, transactions, cache, listeners, events>>

\* DB.GetTokenRequest(txID) of executor x up to the return of d.cache.Get:
\* the entry of the cache is returned when there is one; on a miss the
\* executor goes on to the backend, and the calls of the other executors
\* can run in between.
GetTokenRequest(x, txID) ==
    LET res == CacheGet(cache, txID)
    IN  /\ spc[x].at = "idle"
        /\ spc' = IF res.ok THEN spc
                  ELSE [spc EXCEPT ![x] = [at |-> "get", tx |-> txID]]
        /\ tret' = IF res.ok
                   THEN [op |-> "GetTokenRequest", tx |-> txID, err |-> "ok",
                         raw |-> res.value, backend |-> FALSE]
                   ELSE TRet("GetTokenRequestMissed", txID, "ok")
        /\ UNCHANGED <<tokenVars, requests, transactions, validations, cache,
                       listeners, events, applied>>

\* DB.GetTokenRequest of executor x after a miss: d.db.GetTokenRequest(txID)
\* and the return of its answer; the cache is left as it is.  The return
\* value tells that the backend was reached.
GetTokenRequestBackend(x, fails) ==
    /\ spc[x].at = "get"
    /\ spc' = [spc EXCEPT ![x] = [at |-> "idle"]]
    /\ tret' = IF fails
               THEN [op |-> "GetTokenRequest", tx |-> spc[x].tx,
                     err |-> "Backend", raw |-> "", backend |-> TRUE]
               ELSE [op |-> "GetTokenRequest", tx |-> spc[x].tx, err |-> "ok",
                     raw |-> BackendGetTokenRequest(requests, spc[x].tx),
                     backend |-> TRUE]
    /\ UNCHANGED <<tokenVars, requests, transactions, validations, cache,
                   listeners, events, applied>>

\* newDB(p) on the backend at hand, after a restart: a new cache and a new
\* StatusSupport, the rows of the backend stay.
newDB ==
    /\ \A x \in Executors : spc[x].at = "idle"
    /\ cache' = {}
    /\ listeners' = {}
    /\ tret' = [op |-> "newDB"]
    /\ UNCHANGED <<tokenVars, requests, transactions, validations, events,
                   spc, applied>>

\* --------------------------------------------- transaction store: status
TxStatuses == {"Pending", "Confirmed", "Deleted"}

\* The backend's SetStatus: an update of the records of txID, which sets
\* none when txID has no record.
BackendSetStatus(rows, txID, status) ==
    [i \in 1..Len(rows) |->
        IF rows[i].tx_id = txID THEN [rows[i] EXCEPT !.status = status]
        ELSE rows[i]]

BackendSetValidationStatus(vs, txID, status) ==
    {IF v.tx_id = txID THEN [v EXCEPT !.status = status] ELSE v : v \in vs}

RecordsOf(rows, vs, txID) ==
    Cardinality({i \in 1..Len(rows) : rows[i].tx_id = txID})
        + Cardinality({v \in vs : v.tx_id = txID})

\* The backend's GetStatus: the status of the records of txID, an error
\* when txID has no record.
BackendGetStatus(rows, vs, txID) ==
    IF \E i \in 1..Len(rows) : rows[i].tx_id = txID
    THEN [status |-> rows[CHOOSE i \in 1..Len(rows) : rows[i].tx_id = txID].status,
          err |-> "ok"]
    ELSE IF \E v \in vs : v.tx_id = txID
    THEN [status |-> (CHOOSE v \in vs : v.tx_id = txID).status, err |-> "ok"]
    ELSE [status |-> "Unknown", err |-> "NotFound"]

\* StatusSupport.AddStatusListener and DeleteStatusListener.
AddStatusListener(l) ==
    /\ listeners' = listeners \cup {l}
    /\ tret' = [op |-> "AddStatusListener"]
    /\ UNCHANGED <<tokenVars, requests, transactions, validations, cache,
                   events, spc, applied>>

DeleteStatusListener(l) ==
    /\ listeners' = listeners \ {l}
    /\ tret' = [op |-> "DeleteStatusListener"]
    /\ UNCHANGED <<tokenVars, requests, transactions, validations, cache,
                   events, spc, applied>>

SetStatusCalls == {k \in 1..Len(applied) : applied[k].by = "SetStatus"}

\* StatusSupport.Notify(event) of executor x: the event goes to the end of
\* the queue of every listener registered now. A listener that calls
\* GetStatus on delivery sees `seen`; `overtook` are the updates whose
\* Notify has not taken place yet.
Notify(x, event) ==
    LET seen == BackendGetStatus(transactions, validations, event.tx)
        overtook == {spc[y].seq : y \in {z \in Executors \ {x} : spc[z].at = "notify"}}
        e == [tx |-> event.tx, status |-> event.status, seq |-> event.seq,
              seen |-> seen, overtook |-> overtook]
    IN  [l \in Listeners |->
            IF l \in listeners THEN Append(events[l], e) ELSE events[l]]

\* Mutant: the listeners are notified of a failed update as well.
SetStatusUpdateAlways(x, txID, status, fails) ==
    /\ spc[x].at = "idle"
    /\ fails \/ Cardinality(SetStatusCalls) < MaxStatusCalls
    /\ IF fails
       THEN /\ events' = Notify(x, [tx |-> txID, status |-> status, seq |-> 0])
            /\ tret' = TRet("SetStatus", txID, "Backend")
            /\ UNCHANGED <<tokenVars, requests, transactions, validations,
                           cache, listeners, spc, applied>>
       ELSE /\ transactions' = BackendSetStatus(transactions, txID, status)
            /\ validations' = BackendSetValidationStatus(validations, txID, status)
            /\ applied' = Written(applied, txID, status, "SetStatus",
                                  RecordsOf(transactions, validations, txID))
            /\ spc' = [spc EXCEPT ![x] = [at |-> "notify", tx |-> txID,
                                           status |-> status,
                                           seq |-> Len(applied) + 1]]
            /\ tret' = [op |-> "SetStatusUpdate", tx |-> txID, err |-> "ok"]
            /\ UNCHANGED <<tokenVars, requests, cache, listeners, events>>

\* Mutant: the listeners are notified before the update.
SetStatusUpdateNotifyFirst(x, txID, status, fails) ==
    /\ spc[x].at = "idle"
    /\ fails \/ Cardinality(SetStatusCalls) < MaxStatusCalls
    /\ IF fails
       THEN /\ tret' = TRet("SetStatus", txID, "Backend")
            /\ UNCHANGED <<tokenVars, requests, transactions, validations,
                           cache, listeners, events, spc, applied>>
       ELSE /\ events' = Notify(x, [tx |-> txID, status |-> status,
                                    seq |-> Len(applied) + 1])
            /\ transactions' = BackendSetStatus(transactions, txID, status)
            /\ validations' = BackendSetValidationStatus(validations, txID, status)
            /\ applied' = Written(applied, txID, status, "SetStatus",
                                  RecordsOf(transactions, validations, txID))
            /\ tret' = TRet("SetStatus", txID, "ok")
            /\ UNCHANGED <<tokenVars, requests, cache, listeners, spc>>

\* Mutant: a record that is Confirmed or Deleted keeps its status.
SetStatusUpdateFinal(x, txID, status, fails) ==
    LET cur == BackendGetStatus(transactions, validations, txID)
        final == cur.err = "ok" /\ cur.status \in {"Confirmed", "Deleted"}
    IN
    /\ spc[x].at = "idle"
    /\ fails \/ Cardinality(SetStatusCalls) < MaxStatusCalls
    /\ IF fails
       THEN /\ tret' = TRet("SetStatus", txID, "Backend")
            /\ UNCHANGED <<tokenVars, requests, transactions, validations,
                           cache, listeners, events, spc, applied>>
       ELSE /\ transactions' = IF final THEN transactions
                               ELSE BackendSetStatus(transactions, txID, status)
            /\ validations' = IF final THEN validations
                              ELSE BackendSetValidationStatus(validations, txID, status)
            /\ applied' = Written(applied, txID, status, "SetStatus",
                                  RecordsOf(transactions, validations, txID))
            /\ spc' = [spc EXCEPT ![x] = [at |-> "notify", tx |-> txID,
                                           status |-> status,
                                           seq |-> Len(applied) + 1]]
            /\ tret' = [op |-> "SetStatusUpdate", tx |-> txID, err |-> "ok"]
            /\ UNCHANGED <<tokenVars, requests, cache, listeners, events>>

\* DB.SetStatus(ctx, txID, status, message) of executor x, up to the return
\* of d.db.SetStatus: a failed update ends the call with its error; after
\* an update the executor goes on to notify.
SetStatusUpdate(x, txID, status, fails) ==
    /\ spc[x].at = "idle"
    /\ fails \/ Cardinality(SetStatusCalls) < MaxStatusCalls
    /\ IF fails
       THEN /\ tret' = TRet("SetStatus", txID, "Backend")
            /\ UNCHANGED <<tokenVars, requests, transactions, validations,
                           cache, listeners, events, spc, applied>>
       ELSE /\ transactions' = BackendSetStatus(transactions, txID, status)
            /\ validations' = BackendSetValidationStatus(validations, txID, status)
            /\ applied' = Written(applied, txID, status, "SetStatus",
                                  RecordsOf(transactions, validations, txID))
            /\ spc' = [spc EXCEPT ![x] = [at |-> "notify", tx |-> txID,
                                           status |-> status,
                                           seq |-> Len(applied) + 1]]
            /\ tret' = [op |-> "SetStatusUpdate", tx |-> txID, err |-> "ok"]
            /\ UNCHANGED <<tokenVars, requests, cache, listeners, events>>

\* DB.SetStatus of executor x from d.Notify on: the event of the update is
\* delivered and the call returns.
SetStatusNotify(x) ==
    /\ spc[x].at = "notify"
    /\ events' = Notify(x, [tx |-> spc[x].tx, status |-> spc[x].status,
                            seq |-> spc[x].seq])
    /\ spc' = [spc EXCEPT ![x] = [at |-> "idle"]]
    /\ tret' = TRet("SetStatus", spc[x].tx, "ok")
    /\ UNCHANGED <<tokenVars, requests, transactions, validations, cache,
                   listeners, applied>>

\* DB.GetStatus(txID).
GetStatus(txID) ==
    LET res == BackendGetStatus(transactions, validations, txID)
    IN  /\ tret' = [op |-> "GetStatus", tx |-> txID, status |-> res.status,
                    err |-> res.err]
        /\ UNCHANGED <<tokenVars, requests, transactions, validations, cache,
                       listeners, events, spc, applied>>

\* ------------------------------------------------- consistency check
\* network.ValidationCode, and the answer of a status probe: a code, or Err
\* for a probe that returns an error.
ValidationCodes == {"Unknown", "Valid", "Invalid", "Busy"}
ProbeAnswers == ValidationCodes \cup {"Err"}

\* An entry of errorMessages: the constant text of the format string and
\* the two values formatted into it.
Message(text, subject, arg) == [text |-> text, subject |-> subject, arg |-> arg]

\* The first switch of the loop of CheckTTXDBView.Call: the status of the
\* vault against the status of the record.
VaultDBMessages(rec, vc) ==
    IF vc = "Unknown"
    THEN <<Message("unknown for vault but not for the db", rec.tx_id, rec.status)>>
    ELSE IF vc = "Valid" /\ rec.status = "Pending"
    THEN <<Message("valid for vault but pending for the db", rec.tx_id, "")>>
    ELSE IF vc = "Valid" /\ rec.status = "Deleted"
    THEN <<Message("valid for vault but deleted for the db", rec.tx_id, "")>>
    ELSE IF vc = "Invalid" /\ rec.status = "Confirmed"
    THEN <<Message("invalid for vault but confirmed for the db", rec.tx_id, "")>>
    ELSE IF vc = "Invalid" /\ rec.status = "Pending"
    THEN <<Message("invalid for vault but pending for the db", rec.tx_id, "")>>
    ELSE IF vc = "Busy" /\ rec.status = "Confirmed"
    THEN <<Message("busy for vault but confirmed for the db", rec.tx_id, "")>>
    ELSE IF vc = "Busy" /\ rec.status = "Deleted"
    THEN <<Message("busy for vault but deleted for the db", rec.tx_id, "")>>
    ELSE <<>>

\* Mutant: a busy vault is reported against an unknown ledger as well.
VaultLedgerMessagesBusyUnknown(rec, vc, l) ==
    LET lVC == IF l = "Err" THEN "Unknown" ELSE l
        failed == IF l = "Err"
                  THEN <<Message("failed to get ledger transaction status",
                                 rec.tx_id, "")>>
                  ELSE <<>>
        report(text) == failed \o <<Message(text, rec.tx_id, lVC)>>
    IN  IF vc = "Valid" /\ lVC /= "Valid"
        THEN report("valid for vault but not for the ledger")
        ELSE IF vc = "Invalid" /\ lVC /= "Invalid"
        THEN IF lVC /= "Unknown" \/ rec.status /= "Deleted"
             THEN report("invalid for vault but not for the ledger")
             ELSE <<>>
        ELSE IF vc = "Unknown" /\ lVC /= "Unknown"
        THEN report("unknown for vault but not for the ledger")
        ELSE IF vc = "Busy" /\ lVC /= "Busy"
        THEN report("busy for vault but not for the ledger")
        ELSE <<>>

\* The second switch of the loop: the status of the vault against the
\* status of the ledger, Unknown when the ledger's probe fails; the error
\* of the probe is reported ahead of the mismatch it is part of.
VaultLedgerMessages(rec, vc, l) ==
    LET lVC == IF l = "Err" THEN "Unknown" ELSE l
        failed == IF l = "Err"
                  THEN <<Message("failed to get ledger transaction status",
                                 rec.tx_id, "")>>
                  ELSE <<>>
        report(text) == failed \o <<Message(text, rec.tx_id, lVC)>>
    IN  IF vc = "Valid" /\ lVC /= "Valid"
        THEN report("valid for vault but not for the ledger")
        ELSE IF vc = "Invalid" /\ lVC /= "Invalid"
        THEN IF lVC /= "Unknown" \/ rec.status /= "Deleted"
             THEN report("invalid for vault but not for the ledger")
             ELSE <<>>
        ELSE IF vc = "Unknown" /\ lVC /= "Unknown"
        THEN report("unknown for vault but not for the ledger")
        ELSE IF vc = "Busy" /\ lVC = "Busy"
        THEN <<>>
        ELSE IF vc = "Busy" /\ lVC /= "Unknown"
        THEN report("busy for vault but not for the ledger")
        ELSE <<>>

\* Mutant: the loop goes on to the switches after a failed vault probe,
\* with the zero ValidationCode the failed call returned.
RECURSIVE CheckTransactionsNoContinue(_, _, _, _, _, _)
CheckTransactionsNoContinue(rows, V, L, c, reqs, msgs) ==
    IF rows = <<>> THEN [msgs |-> msgs, panic |-> FALSE]
    ELSE LET rec == Head(rows)
             vc == IF V[rec.tx_id] = "Err" THEN "Unknown" ELSE V[rec.tx_id]
             failed == IF V[rec.tx_id] = "Err"
                       THEN <<Message("failed to get vault status transaction record",
                                      rec.tx_id, "")>>
                       ELSE <<>>
         IN  CheckTransactionsNoContinue(Tail(rows), V, L, c, reqs,
                 msgs \o failed \o VaultDBMessages(rec, vc)
                      \o VaultLedgerMessages(rec, vc, L[rec.tx_id]))

\* The loop of CheckTTXDBView.Call over the transaction records, in the
\* order of the iterator.  V and L: the answers of the vault's and of the
\* ledger's status probe per tx-id.  A record whose vault probe fails gets
\* one message and nothing else; a record without a token request ends the
\* call in the panic of assert.
RECURSIVE CheckTransactions(_, _, _, _, _, _)
CheckTransactions(rows, V, L, c, reqs, msgs) ==
    IF rows = <<>> THEN [msgs |-> msgs, panic |-> FALSE]
    ELSE LET rec == Head(rows)
             vc == V[rec.tx_id]
         IN  IF vc = "Err"
             THEN CheckTransactions(Tail(rows), V, L, c, reqs,
                      Append(msgs,
                          Message("failed to get vault status transaction record",
                                  rec.tx_id, "")))
             ELSE IF ~CacheGet(c, rec.tx_id).ok
                     /\ ~\E q \in reqs : q.tx_id = rec.tx_id
             THEN [msgs |-> msgs \o VaultDBMessages(rec, vc), panic |-> TRUE]
             ELSE CheckTransactions(Tail(rows), V, L, c, reqs,
                      msgs \o VaultDBMessages(rec, vc)
                           \o VaultLedgerMessages(rec, vc, L[rec.tx_id]))

\* TokenDB.UnspentTokensIterator: the rows of TOKENS LEFT JOIN OWNERSHIP
\* that HasTokenDetails keeps with no wallet, type or id given: not
\* deleted, one row per owner wallet of a token.
UnspentTokensIterator(toks, owns) ==
    {j \in LeftJoin(toks, owns) :
        HasTokenDetails(j, Params("", "", <<>>, FALSE), TRUE)}

\* The callback of the check, invoked on the calls of GetTokenOutputs in
\* turn: a message for the ledger bytes that equal no element of
\* ledgerTokenContent; index counts the messages made so far.
RECURSIVE MatchLedgerContent(_, _, _, _)
MatchLedgerContent(calls, ledgerTokenContent, index, msgs) ==
    IF calls = <<>> THEN msgs
    ELSE IF \E k \in 1..Len(ledgerTokenContent) :
                ledgerTokenContent[k] = Head(calls)[2]
    THEN MatchLedgerContent(Tail(calls), ledgerTokenContent, index, msgs)
    ELSE MatchLedgerContent(Tail(calls), ledgerTokenContent, index + 1,
             Append(msgs, Message("token content does not match",
                                  ToString(Head(calls)[1]), ToString(index))))

\* Mutant: the local bytes are compared with the ledger's at the same
\* position only.
CheckUnspentPositional(toks, unspentTokenIDs, ledgerTokenContent) ==
    LET out == GetTokenOutputs(toks, unspentTokenIDs, 0)
        differ == {i \in 1..Len(unspentTokenIDs) :
                     out.err = "ok"
                        /\ ledgerTokenContent[i] /= out.calls[i][2]}
        RECURSIVE at(_, _)
        at(i, n) == IF i > Len(unspentTokenIDs) THEN <<>>
                    ELSE IF i \in differ
                    THEN <<Message("token content does not match",
                                   ToString(unspentTokenIDs[i]), ToString(n))>>
                         \o at(i + 1, n + 1)
                    ELSE at(i + 1, n)
    IN  IF out.err /= "ok"
        THEN [msgs |-> <<>>, panic |-> TRUE]
        ELSE [msgs |-> at(1, 0), panic |-> FALSE]

\* The answer q of net.QueryTokens for the unspent ids, an error or a list
\* of contents, as CheckTTXDBView.Call takes it: an error is a message and
\* the end of the check; an answer of another length than the ids ends the
\* call in the panic of assert.
CheckQuery(unspentTokenIDs, q) ==
    IF q.err
    THEN [msgs |-> <<Message("failed to query tokens", "", "")>>,
          panic |-> FALSE, done |-> TRUE]
    ELSE IF Len(unspentTokenIDs) /= Len(q.content)
    THEN [msgs |-> <<>>, panic |-> TRUE, done |-> TRUE]
    ELSE [msgs |-> <<>>, panic |-> FALSE, done |-> FALSE]

\* The last part of CheckTTXDBView.Call: GetTokenOutputs on the unspent ids
\* with the callback that matches the ledger bytes of each against
\* ledgerTokenContent.  An error of GetTokenOutputs ends the call in the
\* panic of assert.
CheckUnspent(toks, unspentTokenIDs, ledgerTokenContent) ==
    LET out == GetTokenOutputs(toks, unspentTokenIDs, 0)
    IN  IF out.err /= "ok"
        THEN [msgs |-> <<>>, panic |-> TRUE]
        ELSE [msgs |-> MatchLedgerContent(out.calls, ledgerTokenContent, 0, <<>>),
              panic |-> FALSE]

\* htlcWallet.DeleteClaimedSentTokens: the tokens the wallet finds claimed
\* are deleted in the token store.
DeleteClaimedSentTokens(toks, htlc, now) ==
    IF htlc.claimed = {} THEN toks
    ELSE {r \in toks : ID(r) \notin htlc.claimed}
            \cup DeleteStmt(toks, htlc.claimed, "htlc", now)

\* htlcWallet.DeleteExpiredReceivedTokens: the tokens the wallet finds
\* expired are deleted in the token store.
DeleteExpiredReceivedTokens(toks, htlc, now) ==
    IF htlc.expired = {} THEN toks
    ELSE {r \in toks : ID(r) \notin htlc.expired}
            \cup DeleteStmt(toks, htlc.expired, "htlc", now)

\* Where an executor is in CheckTTXDBView.Call: in the loop over the
\* records, before DeleteClaimedSentTokens, before
\* DeleteExpiredReceivedTokens, before UnspentTokensIterator, before
\* net.QueryTokens, before GetTokenOutputs.
CallPositions == {"records", "claimed", "expired", "unspent", "query", "outputs"}

\* The answers a call has not asked for yet.
NoWallet == [wallet |-> FALSE, claimed |-> {}, expired |-> {}]
NoAnswer == [err |-> FALSE, content |-> <<>>]

\* What a call of the check leaves: the position it ended at, the answers
\* it got, the records it went through, the unspent ids it enumerated and
\* the messages or the panic it ended in.
CallRet(p, err, msgs) ==
    [op |-> "Call", stage |-> p.at, V |-> p.V, L |-> p.L, htlc |-> p.htlc,
     q |-> p.q, records |-> p.records, err |-> err, msgs |-> msgs,
     unspent |-> p.unspent]

\* The steps of a call leave all but the token rows, the position of the
\* executor and the value returned.
CallFrame ==
    UNCHANGED <<ownership, clock, hstate, hwr, hown, hins, hdel, hcall, last,
                pparams, certs, backend, writer, requests, transactions,
                validations, cache, listeners, events, applied>>

\* CheckTTXDBView.Call of executor x, on the owner's transaction store, up
\* to tokenDB.Transactions: the query of the transaction records.  V, L: the
\* status probes of the vault and of the ledger for this call.
Call(x, V, L) ==
    /\ spc[x].at = "idle"
    /\ spc' = [spc EXCEPT ![x] =
                  [at |-> "records", V |-> V, L |-> L, records |-> transactions,
                   rows |-> transactions, msgs |-> <<>>, htlc |-> NoWallet,
                   unspent |-> <<>>, q |-> NoAnswer]]
    /\ tret' = [op |-> "CallBegin"]
    /\ tokens' = tokens
    /\ CallFrame

\* One round of the loop over the transaction records: it.Next(), then the
\* two probes, the switches and GetTokenRequest for the record; after the
\* last record the call goes on to the cleanup.  A record without a token
\* request ends the call in the panic of assert.
CallRecord(x) ==
    LET p == spc[x]
        t == CheckTransactions(<<Head(p.rows)>>, p.V, p.L, cache, requests, p.msgs)
    IN  /\ p.at = "records"
        /\ tokens' = tokens
        /\ CallFrame
        /\ IF p.rows = <<>>
           THEN /\ spc' = [spc EXCEPT ![x] = [p EXCEPT !.at = "claimed"]]
                /\ tret' = tret
           ELSE IF t.panic
           THEN /\ spc' = [spc EXCEPT ![x] = [at |-> "idle"]]
                /\ tret' = CallRet(p, "Panic", <<>>)
           ELSE /\ spc' = [spc EXCEPT ![x] =
                             [p EXCEPT !.rows = Tail(p.rows), !.msgs = t.msgs]]
                /\ tret' = tret

\* Mutant: the check runs without the cleanup of claimed tokens.
CallDeleteClaimedSkipped(x, htlc) ==
    LET p == spc[x]
    IN  /\ p.at = "claimed"
        /\ tokens' = tokens
        /\ CallFrame
        /\ tret' = tret
        /\ spc' = [spc EXCEPT ![x] =
                      [p EXCEPT !.at = IF htlc.wallet THEN "expired" ELSE "unspent",
                                !.htlc = htlc]]

\* htlc.GetWallet and, when the default owner wallet exists,
\* DeleteClaimedSentTokens.  htlc: whether the wallet exists and the ids it
\* finds claimed and expired.  An error of the deletion ends the call in
\* the panic of assert.
CallDeleteClaimed(x, htlc) ==
    LET p == spc[x]
        busy == htlc.wallet /\ htlc.claimed /= {} /\ Busy(StmtSlot)
    IN  /\ p.at = "claimed"
        /\ htlc.wallet => ~UpdateWaits(StmtSlot, htlc.claimed)
        /\ CallFrame
        /\ IF busy
           THEN /\ tokens' = tokens
                /\ spc' = [spc EXCEPT ![x] = [at |-> "idle"]]
                /\ tret' = CallRet([p EXCEPT !.htlc = htlc], "Panic", <<>>)
           ELSE /\ tokens' = IF htlc.wallet
                             THEN DeleteClaimedSentTokens(tokens, htlc, clock)
                             ELSE tokens
                /\ spc' = [spc EXCEPT ![x] =
                              [p EXCEPT !.at = IF htlc.wallet THEN "expired"
                                               ELSE "unspent",
                                        !.htlc = htlc]]
                /\ tret' = tret

\* DeleteExpiredReceivedTokens of the htlc wallet.
CallDeleteExpired(x) ==
    LET p == spc[x]
        busy == p.htlc.expired /= {} /\ Busy(StmtSlot)
    IN  /\ p.at = "expired"
        /\ ~UpdateWaits(StmtSlot, p.htlc.expired)
        /\ CallFrame
        /\ IF busy
           THEN /\ tokens' = tokens
                /\ spc' = [spc EXCEPT ![x] = [at |-> "idle"]]
                /\ tret' = CallRet(p, "Panic", <<>>)
           ELSE /\ tokens' = DeleteExpiredReceivedTokens(tokens, p.htlc, clock)
                /\ spc' = [spc EXCEPT ![x] = [p EXCEPT !.at = "unspent"]]
                /\ tret' = tret

\* UnspentTokensIterator and the loop that collects the ids of its rows,
\* which arrive in an order of the backend's choosing.
CallUnspent(x) ==
    LET p == spc[x]
        rows == UnspentTokensIterator(tokens, ownership)
    IN  /\ p.at = "unspent"
        /\ tokens' = tokens
        /\ CallFrame
        /\ tret' = tret
        /\ \E o \in RowOrders(rows) :
              spc' = [spc EXCEPT ![x] =
                         [p EXCEPT !.at = "query",
                                   !.unspent = [i \in 1..Len(o) |-> ID(o[i].t)]]]

\* net.QueryTokens for the unspent ids, with the answer q, and the check of
\* its length.
CallQuery(x, q) ==
    LET p == [spc[x] EXCEPT !.q = q]
        c == CheckQuery(p.unspent, q)
    IN  /\ spc[x].at = "query"
        /\ tokens' = tokens
        /\ CallFrame
        /\ IF c.done
           THEN /\ spc' = [spc EXCEPT ![x] = [at |-> "idle"]]
                /\ tret' = IF c.panic THEN CallRet(p, "Panic", <<>>)
                           ELSE CallRet(p, "ok", p.msgs \o c.msgs)
           ELSE /\ spc' = [spc EXCEPT ![x] = [p EXCEPT !.at = "outputs"]]
                /\ tret' = tret

\* GetTokenOutputs with the callback of the check, and the return of
\* errorMessages.
CallOutputs(x) ==
    LET p == spc[x]
        u == CheckUnspent(tokens, p.unspent, p.q.content)
    IN  /\ p.at = "outputs"
        /\ tokens' = tokens
        /\ CallFrame
        /\ spc' = [spc EXCEPT ![x] = [at |-> "idle"]]
        /\ tret' = IF u.panic THEN CallRet(p, "Panic", <<>>)
                   ELSE CallRet(p, "ok", p.msgs \o u.msgs)

\* Vault.PruneInvalidUnspentTokens of executor x, called by
\* PruneInvalidUnspentTokensView.Call, up to the first deletion: the local
\* unspent tokens are listed and the ledger is asked about each.  invalid:
\* the ids the ledger finds invalid or unknown.  Without such a token the
\* call returns.
PruneInvalidUnspentTokens(x, invalid) ==
    LET unspent == IDs({j.t : j \in UnspentTokensIterator(tokens, ownership)})
        ids == unspent \cap invalid
    IN  /\ spc[x].at = "idle"
        /\ tokens' = tokens
        /\ CallFrame
        /\ IF ids = {}
           THEN /\ spc' = spc
                /\ tret' = [op |-> "PruneInvalidUnspentTokens", deleted |-> {},
                            err |-> "ok"]
           ELSE /\ spc' = [spc EXCEPT ![x] = [at |-> "prune", ids |-> ids,
                                               deleted |-> {}]]
                /\ tret' = [op |-> "PruneBegin"]

\* The next DeleteTokens("pruner", id) of the pruning, and the return after
\* the last; an error of DeleteTokens ends the call.
PruneDelete(x) ==
    LET p == spc[x]
    IN  /\ p.at = "prune"
        /\ CallFrame
        /\ \E id \in p.ids :
              LET rest == p.ids \ {id}
                  deleted == p.deleted \cup {id}
              IN  /\ ~UpdateWaits(StmtSlot, {id})
                  /\ IF Busy(StmtSlot)
                     THEN /\ tokens' = tokens
                          /\ spc' = [spc EXCEPT ![x] = [at |-> "idle"]]
                          /\ tret' = [op |-> "PruneInvalidUnspentTokens",
                                      deleted |-> p.deleted, err |-> "Locked"]
                     ELSE /\ tokens' = {r \in tokens : ID(r) /= id}
                                          \cup DeleteStmt(tokens, {id}, "pruner", clock)
                          /\ spc' = [spc EXCEPT ![x] =
                                        IF rest = {} THEN [at |-> "idle"]
                                        ELSE [p EXCEPT !.ids = rest,
                                                       !.deleted = deleted]]
                          /\ tret' = IF rest = {}
                                     THEN [op |-> "PruneInvalidUnspentTokens",
                                           deleted |-> deleted, err |-> "ok"]
                                     ELSE tret

\* ------------------------------------------------------ specifications
Init ==
    /\ tokens = {}
    /\ ownership = {}
    /\ clock = 0
    /\ hstate = [c \in Slots |-> "none"]
    /\ hwr = [c \in Slots |-> {}]
    /\ hown = [c \in Slots |-> {}]
    /\ hins = [c \in Slots |-> {}]
    /\ hdel = [c \in Slots |-> {}]
    /\ last = Ret("Init", 0, {}, "ok")
    /\ pparams = {}
    /\ certs = {}
    /\ backend \in Backends
    /\ writer = {}
    /\ hcall = [c \in Slots |-> Idle]
    /\ InitTTX

\* Without an atomic write handle the two backends of the token store
\* answer alike; the specifications of the transaction store run on one.
InitPostgres == Init /\ backend = "postgres"

\* The calls of the token store, with the handles and the arguments drawn
\* from the given sets.
NextOn(H, Recs, Owners, DBRecs, DBOwners, Bys, Lists) ==
    \/ \E h \in H : NewTokenDBTransaction(h)
    \/ \E h \in H, tr \in Recs, owners \in Owners : StoreToken(h, tr, owners)
    \/ \E h \in H, id \in IDs(Recs) \cup IDs(DBRecs), by \in Bys : Delete(h, id, by)
    \/ \E h \in H : Commit(h)
    \/ \E h \in H : Rollback(h)
    \/ \E tr \in DBRecs, owners \in DBOwners : DBStoreToken(tr, owners)
    \/ DBStoreTokenEnd
    \/ \E by \in Bys, ids \in Lists : DeleteTokens(by, ids)

IDLists == {<<>>, <<<<"T1", 0>>>>, <<<<"T2", 0>>, <<"T1", 0>>>>}

\* The records a handle stores: for T1 an owned token without and with an
\* owner wallet id, and one that is not owned.
HandleRecords ==
    {tr \in TokenRecords :
        /\ tr.tx_id = "T1" /\ tr.owner_raw = "alice"
        /\ tr.owner \/ tr.owner_wallet_id = ""}

\* The records TokenDB.StoreToken is called with next to a handle: one for
\* each token id.
DBRecords ==
    {tr \in TokenRecords :
        tr.owner /\ tr.owner_wallet_id = "w1" /\ (tr.tx_id = "T1" => tr.owner_raw = "alice")}

\* The owners of a record that has an owner wallet id: none, and one twice.
DBOwnerLists == {<<>>, <<"w1", "w1">>}

\* One atomic write handle at a time, next to the non-transactional writers.
Next ==
    \/ NextOn({1}, HandleRecords, OwnerLists, DBRecords, {<<>>}, DeletedBys, IDLists)
    \/ \E c \in Slots : DeadlockDetected(c)

Spec == Init /\ [][Next]_vars

\* The clock moves and deleted-by may be empty: two records of T1 for the
\* handle, and one of T2 next to them, so that two callers can hold the row
\* the other one deletes.
TimeRecords ==
    {tr \in AllTokenRecords :
        tr.tx_id = "T1" /\ tr.owner_wallet_id = "w1" /\ tr.owner_raw = "alice"}

TimeDBRecords == {tr \in DBRecords : tr.tx_id = "T2"}

TimeLists == {<<<<"T1", 0>>>>, <<<<"T2", 0>>, <<"T1", 0>>>>}

NextTime ==
    \/ NewTokenDBTransaction(1)
    \/ \E tr \in TimeRecords : StoreToken(1, tr, <<>>)
    \/ \E id \in TokenIDs : Delete(1, id, "X")
    \/ Commit(1)
    \/ Rollback(1)
    \/ \E tr \in TimeDBRecords : DBStoreToken(tr, <<>>)
    \/ DBStoreTokenEnd
    \/ \E by \in {"", "X"}, ids \in TimeLists : DeleteTokens(by, ids)
    \/ \E c \in Slots : DeadlockDetected(c)
    \/ Tick

SpecTime == Init /\ [][NextTime]_vars

\* Concurrent atomic write handles on one token id.
ConcRecords ==
    {tr \in AllTokenRecords : tr.tx_id = "T1" /\ tr.owner_wallet_id = "w1" /\ tr.owner}

ConcDBRecords == {tr \in ConcRecords : tr.owner_raw = "alice"}

NextConc ==
    NextOn(Handles, ConcRecords, {<<>>, <<"w1">>}, ConcDBRecords, {<<>>},
           {"X"}, {<<<<"T1", 0>>>>})

SpecConc == Init /\ [][NextConc]_vars

\* The readers: three token ids written and deleted by the non-transactional
\* writers.  Tokens owned, audited or both, of two types, with and without
\* an owner wallet id, one with empty ledger bytes.
ReadIDs == {<<"T1", 0>>, <<"T1", 1>>, <<"T2", 0>>}

Rec(txID, index, raw, typ, amount, wallet, ledger, owner, auditor) ==
    [tx_id |-> txID, idx |-> index, owner_raw |-> raw, token_type |-> typ,
     quantity |-> ToString(amount), amount |-> amount,
     owner_wallet_id |-> wallet, ledger |-> ledger,
     owner |-> owner, auditor |-> auditor, issuer |-> FALSE]

ReadRecords ==
    {Rec("T1", 0, "alice", "USD", 100, "", "LA", TRUE, TRUE),
     Rec("T1", 0, "alice", "USD", 100, "w1", "", FALSE, TRUE),
     Rec("T1", 1, "bob", "EUR", 50, "w1", "LB", TRUE, FALSE),
     Rec("T2", 0, "bob", "USD", 7, "", "LC", TRUE, TRUE)}

ReadOwners == {<<>>, <<"w1">>, <<"w1", "w2">>}

ReadDeletes == {<<<<"T1", 0>>>>, <<<<"T1", 1>>>>, <<<<"T2", 0>>, <<"T1", 0>>>>}

NextRead ==
    \/ \E tr \in ReadRecords, owners \in ReadOwners : DBStoreToken(tr, owners)
    \/ DBStoreTokenEnd
    \/ \E ids \in ReadDeletes : DeleteTokens("X", ids)

SpecRead == Init /\ [][NextRead]_vars

\* The public parameters log: appends at the times the clock shows.
ParamsRaws == {"pp1", "pp2", "pp3", "pp4"}

NextParams ==
    \/ \E raw \in ParamsRaws : StorePublicParams(raw)
    \/ Tick

SpecParams == Init /\ [][NextParams]_vars

\* Certifications: two tokens, and batches of at most MaxBatch entries for
\* their ids, for an id without a token and for a nil id, with empty and
\* non-empty bytes.
CertRecords ==
    {Rec("T1", 0, "alice", "USD", 100, "w1", "LA", TRUE, TRUE),
     Rec("T2", 0, "bob", "USD", 7, "w1", "LC", TRUE, TRUE)}

CertEntries ==
    {e \in [id : {<<"T1", 0>>, <<"T2", 0>>, <<"T1", 1>>, NilID},
            certification : {"", "c1", "c2"}] :
        e.id /= <<"T1", 0>> => e.certification = "c1"}

CertBatches == UNION {[1..n -> CertEntries] : n \in 1..MaxBatch}

NextCert ==
    \/ \E tr \in CertRecords : DBStoreToken(tr, <<"w1">>)
    \/ DBStoreTokenEnd
    \/ \E ids \in {<<<<"T1", 0>>>>} : DeleteTokens("X", ids)
    \/ \E batch \in CertBatches : StoreCertifications(batch)
    \/ StoreCertificationsLoop
    \/ StoreCertificationsEnd

SpecCert == Init /\ [][NextCert]_vars

\* The foreign keys: one token, stored by TokenDB.StoreToken or through an
\* atomic write handle, certifications for its id and for an id without a
\* token, and tokenDBError on the errors the backends return for the
\* INSERTs.
FKRecords == {Rec("T1", 0, "alice", "USD", 100, "w1", "LA", TRUE, TRUE)}

FKBatches ==
    {<<[id |-> id, certification |-> "c1"]>> : id \in {<<"T1", 0>>, <<"T1", 1>>}}

BackendErrors ==
    {ForeignKeyViolation(be) : be \in Backends}
        \cup {UniqueViolation(be) : be \in Backends}
        \cup {DatabaseLocked}

NextFK ==
    \/ \E tr \in FKRecords, owners \in {<<"w1">>, <<"w1", "w2">>} :
          DBStoreToken(tr, owners)
    \/ DBStoreTokenEnd
    \/ NewTokenDBTransaction(1)
    \/ \E tr \in FKRecords : StoreToken(1, tr, <<"w1">>)
    \/ Commit(1)
    \/ Rollback(1)
    \/ \E batch \in FKBatches : StoreCertifications(batch)
    \/ StoreCertificationsLoop
    \/ StoreCertificationsEnd
    \/ \E err \in BackendErrors : tokenDBErrorOf(err)

SpecFK == Init /\ [][NextFK]_vars

\* Audit decomposition: the audit records of at most MaxItems inputs and
\* outputs over two actions, each stream in the order of its actions. The
\* outputs of action 0 cover every recipient and type and an amount of 0;
\* action 1 has the inputs of two enrollment ids and outputs to alice and
\* to nobody.
AuditInputs ==
    [action_index : {0}, enrollment_id : {"alice", "bob", ""},
     type : {"USD"}, amount : {30}]
    \cup [action_index : {1}, enrollment_id : {"alice", "bob"},
          type : {"USD"}, amount : {30}]

AuditOutputs ==
    [action_index : {0}, enrollment_id : {"alice", "bob", ""},
     type : {"USD", "EUR"}, amount : {30}]
    \cup [action_index : {0}, enrollment_id : {"bob"},
          type : {"USD"}, amount : {0}]
    \cup [action_index : {1}, enrollment_id : {"alice", ""},
          type : {"USD"}, amount : {30}]

RECURSIVE Streams(_, _)
Streams(items, n) ==
    IF n = 0 THEN {<<>>}
    ELSE LET shorter == Streams(items, n - 1)
             longest == {st \in shorter : Len(st) = n - 1}
         IN  shorter \cup
             UNION {{Append(st, t) :
                        t \in {y \in items :
                                 st = <<>> \/ st[Len(st)].action_index <= y.action_index}} :
                    st \in longest}

AuditRecords ==
    UNION {{[anchor |-> "T1", inputs |-> ins, outputs |-> ous] :
               ins \in Streams(AuditInputs, n),
               ous \in Streams(AuditOutputs, MaxItems - n)} : n \in 0..MaxItems}

InitAudit ==
    /\ tokens = {}
    /\ ownership = {}
    /\ clock = 0
    /\ hstate = [c \in Slots |-> "none"]
    /\ hwr = [c \in Slots |-> {}]
    /\ hown = [c \in Slots |-> {}]
    /\ hins = [c \in Slots |-> {}]
    /\ hdel = [c \in Slots |-> {}]
    /\ last = Ret("Init", 0, {}, "ok")
    /\ pparams = {}
    /\ certs = {}
    /\ backend = "postgres"
    /\ writer = {}
    /\ hcall = [c \in Slots |-> Idle]
    /\ requests = {}
    /\ transactions = <<>>
    /\ validations = {}
    /\ cache = {}
    /\ listeners = {}
    /\ events = [l \in Listeners |-> <<>>]
    /\ spc = [x \in Executors |-> [at |-> "idle"]]
    /\ applied = <<>>
    /\ tret \in {[op |-> "AuditRecord", record |-> r] : r \in AuditRecords}

NextAudit == TransactionRecordsCall \/ MovementsCall

SpecAudit == InitAudit /\ [][NextAudit]_vars

\* The transaction store's requests and cache: a transfer of alice on T1,
\* an issue with other bytes on the same anchor, a request on T2 whose
\* inputs are of two enrollment ids, and a validation record on T2.
AuditIn(k, eid) ==
    [action_index |-> k, enrollment_id |-> eid, type |-> "USD", amount |-> 100]
AuditOut(k, eid, amount) ==
    [action_index |-> k, enrollment_id |-> eid, type |-> "USD", amount |-> amount]

TokenRequests ==
    {[anchor |-> "T1", raw |-> "r1", inputs |-> <<AuditIn(0, "alice")>>,
      outputs |-> <<AuditOut(0, "bob", 70), AuditOut(0, "alice", 30)>>],
     [anchor |-> "T1", raw |-> "r1x", inputs |-> <<>>,
      outputs |-> <<AuditOut(0, "bob", 30)>>],
     [anchor |-> "T2", raw |-> "r2",
      inputs |-> <<AuditIn(0, "alice"), AuditIn(0, "bob")>>,
      outputs |-> <<AuditOut(0, "bob", 30)>>]}

TxIDs == {"T1", "T2"}

NextTTX ==
    \/ \E x \in Executors, req \in TokenRequests, fail \in BeginFailures :
          AppendTransactionRecord(x, req, fail)
    \/ \E x \in Executors, fail \in AppendFailures :
          AppendTransactionRecordWrite(x, fail)
    \/ \E x \in Executors, fail \in BeginFailures \ {"inputs", "bytes"} :
          AppendValidationRecord(x, "T2", "v2", "m", fail)
    \/ \E x \in Executors, fail \in AppendFailures :
          AppendValidationRecordWrite(x, fail)
    \/ \E x \in Executors, txID \in TxIDs : GetTokenRequest(x, txID)
    \/ \E x \in Executors, fails \in BOOLEAN : GetTokenRequestBackend(x, fails)
    \/ \E txID \in TxIDs : GetStatus(txID)
    \/ newDB

SpecTTX == InitPostgres /\ [][NextTTX]_vars

\* The status of the transactions: two executors set the status of T1,
\* whose records are appended at some point, and an update of the first can
\* fail; l1 stays registered once it is, l2 comes and goes.
NextStatus ==
    \/ \E req \in {r \in TokenRequests : r.raw = "r1"} :
          AppendTransactionRecord(1, req, "none")
    \/ AppendTransactionRecordWrite(1, [at |-> "none", n |-> 0])
    \/ \E l \in Listeners : AddStatusListener(l)
    \/ DeleteStatusListener("l2")
    \/ \E x \in Executors, status \in TxStatuses :
          SetStatusUpdate(x, "T1", status, FALSE)
    \/ SetStatusUpdate(1, "T1", "Confirmed", TRUE)
    \/ \E x \in Executors : SetStatusNotify(x)

SpecStatus == InitPostgres /\ [][NextStatus]_vars

\* The consistency check: a transaction store that holds the transfer on
\* T1, at any status, and an issue on T2, or nothing; two owned tokens
\* stored one by one, the second with two owner wallets; and calls
\* of the check: with every pair of answers of the two status probes and a
\* failing token query, and with agreeing probes, an htlc wallet that finds
\* a token claimed or expired, and answers of the token query of up to
\* MaxUnspent contents, right, wrong, permuted, short and long.
MaxUnspent == 3

CheckRecords ==
    {Rec("T1", 0, "alice", "USD", 100, "w1", "LA", TRUE, TRUE),
     Rec("T2", 0, "bob", "USD", 7, "w1", "LC", TRUE, FALSE)}

CheckRequests ==
    <<CHOOSE r \in TokenRequests : r.raw = "r1",
      [anchor |-> "T2", raw |-> "r3", inputs |-> <<>>,
       outputs |-> <<AuditOut(0, "bob", 30)>>]>>

\* The backend after the requests have been appended in turn.
RECURSIVE Appended(_)
Appended(n) ==
    IF n = 0 THEN [requests |-> {}, rows |-> <<>>, cache |-> {}]
    ELSE LET before == Appended(n - 1)
             req == CheckRequests[n]
             txs == TransactionRecords([anchor |-> req.anchor,
                                        inputs |-> req.inputs,
                                        outputs |-> req.outputs], 0).txs
             w == AppendStmts(before.requests, before.rows, req.anchor, req.raw,
                              txs, [at |-> "none", n |-> 0])
         IN  [requests |-> w.requests, rows |-> w.rows,
              cache |-> CacheAdd(before.cache, req.anchor, req.raw)]

InitCheck ==
    /\ tokens = {}
    /\ ownership = {}
    /\ clock = 0
    /\ hstate = [c \in Slots |-> "none"]
    /\ hwr = [c \in Slots |-> {}]
    /\ hown = [c \in Slots |-> {}]
    /\ hins = [c \in Slots |-> {}]
    /\ hdel = [c \in Slots |-> {}]
    /\ last = Ret("Init", 0, {}, "ok")
    /\ pparams = {}
    /\ certs = {}
    /\ backend = "postgres"
    /\ writer = {}
    /\ hcall = [c \in Slots |-> Idle]
    /\ validations = {}
    /\ listeners = {}
    /\ events = [l \in Listeners |-> <<>>]
    /\ spc = [x \in Executors |-> [at |-> "idle"]]
    /\ applied = <<>>
    /\ tret = [op |-> "Init"]
    /\ \E n \in {0, Len(CheckRequests)}, status \in TxStatuses :
          /\ n = 0 => status = "Pending"
          /\ requests = Appended(n).requests
          /\ cache = Appended(n).cache
          /\ transactions = BackendSetStatus(Appended(n).rows, "T1", status)

VaultProbes ==
    {[t \in TxIDs |-> IF t = "T1" THEN a ELSE "Valid"] : a \in ProbeAnswers}
        \cup {[t \in TxIDs |-> IF t = "T1" THEN "Valid" ELSE "Err"]}

LedgerProbes ==
    {[t \in TxIDs |-> IF t = "T1" THEN a ELSE "Err"] : a \in ProbeAnswers}

HtlcWallets ==
    {[wallet |-> FALSE, claimed |-> {}, expired |-> {}],
     [wallet |-> TRUE, claimed |-> {<<"T1", 0>>}, expired |-> {}],
     [wallet |-> TRUE, claimed |-> {}, expired |-> {<<"T2", 0>>}]}

\* The sets of ids the ledger finds invalid or unknown when the pruning asks.
PrunedSets == {{<<"T2", 0>>}, {<<"T1", 0>>, <<"T2", 0>>}}

QueryAnswers ==
    {[err |-> TRUE, content |-> <<>>]}
        \cup {[err |-> FALSE, content |-> c] :
                c \in {x \in {<<>>, <<"LA">>, <<"LA", "LC">>, <<"LC", "LA">>,
                              <<"LA", "LX">>, <<"LA", "LC", "LC">>,
                              <<"LX", "LC", "LC">>, <<"LA", "LC", "LC", "LC">>} :
                         Len(x) <= MaxUnspent}}

AllValid == [t \in TxIDs |-> "Valid"]

\* The call of executor x in progress got agreeing answers of its probes.
Agreeing(x) == spc[x].V = AllValid /\ spc[x].L = AllValid

NextCheck ==
    \/ \E tr \in {r \in CheckRecords : r.tx_id = "T1"} : DBStoreToken(tr, <<"w1">>)
    \/ \E tr \in {r \in CheckRecords : r.tx_id = "T2"} :
          DBStoreToken(tr, <<"w1", "w2">>)
    \/ DBStoreTokenEnd
    \/ \E V \in VaultProbes, L \in LedgerProbes : Call(1, V, L)
    \/ Call(1, AllValid, AllValid)
    \/ CallRecord(1)
    \/ \E htlc \in HtlcWallets :
          /\ spc[1].at = "claimed"
          /\ Agreeing(1) \/ ~htlc.wallet
          /\ CallDeleteClaimed(1, htlc)
    \/ CallDeleteExpired(1)
    \/ CallUnspent(1)
    \/ \E q \in QueryAnswers :
          /\ spc[1].at = "query"
          /\ Agreeing(1) \/ q.err
          /\ CallQuery(1, q)
    \/ CallOutputs(1)
    \/ \E invalid \in PrunedSets : PruneInvalidUnspentTokens(2, invalid)
    \/ PruneDelete(2)

SpecCheck == InitCheck /\ [][NextCheck]_vars

\* --------------------------------------------------------------- claims
\* The arguments the claims quantify the calls over.
AnyDeletedBy == {"", "X"}
AnyOwners == OwnerLists

\* The call the caller c is in returns with the step.
Returns(c) == hcall'[c] = Idle

\* The time.Now() of the call of c that the step runs or resumes.
CallTime(c) == IF hcall[c] = Idle THEN clock ELSE hcall[c].now

\* The step is the return of TokenTransaction.StoreToken on the handle h.
StoreTokenReturns(h, tr, owners) ==
    last'.op = "StoreToken" /\ last'.h = h /\ Returns(h) /\ StoreToken(h, tr, owners)

\* The step ends the blocked call of c with the deadlock error of postgres.
Deadlocks(c) == hcall[c].at = "blocked" /\ DeadlockDetected(c)

\* The step is the return of TokenTransaction.StoreToken on the handle h
\* with the deadlock error.
StoreTokenDeadlocks(h, tr, owners) ==
    /\ last'.op = "StoreToken" /\ last'.h = h
    /\ Deadlocks(h)
    /\ hcall[h].tr = tr /\ hcall[h].owners = owners

\* The step is the return of TokenDB.StoreToken with the deadlock error.
DBStoreTokenDeadlocks(tr, owners) ==
    /\ last'.op = "DBStoreToken"
    /\ Deadlocks(TxSlot)
    /\ hcall[TxSlot].op = "StoreToken"
    /\ hcall[TxSlot].tr = tr /\ hcall[TxSlot].owners = owners

\* The step is a return of TokenTransaction.Delete on the handle h: of the
\* UPDATE, of the refusal of a transaction that is aborted or over, or of
\* the deadlock error that ends the blocked UPDATE.
DeleteReturns(h, id, by) ==
    /\ last'.op = "Delete" /\ last'.h = h /\ Returns(h)
    /\ \/ Delete(h, id, by)
       \/ /\ Deadlocks(h)
          /\ hcall[h].ids = {id} /\ hcall[h].by = by

\* The step is the return of TokenDB.StoreToken(tr, owners): at once, or
\* after the Commit or the Rollback of its transaction.
DBStoreTokenReturns(tr, owners) ==
    /\ last'.op = "DBStoreToken"
    /\ Returns(TxSlot)
    /\ \/ DBStoreToken(tr, owners)
       \/ /\ DBStoreTokenEnd
          /\ hcall[TxSlot].tr = tr /\ hcall[TxSlot].owners = owners

\* The step is a return of TokenDB.DeleteTokens(by, ids): of the UPDATE, or
\* of the deadlock error that ends the blocked UPDATE.
DeleteTokensReturns(by, ids) ==
    /\ last'.op = "DeleteTokens" /\ Returns(StmtSlot)
    /\ \/ DeleteTokens(by, ids)
       \/ /\ Deadlocks(StmtSlot)
          /\ hcall[StmtSlot].ids = SeqToSet(ids) /\ hcall[StmtSlot].by = by

\* The step is the return of TokenDB.StoreCertifications(batch).
StoreCertificationsReturns(batch) ==
    /\ last'.op = "StoreCertifications"
    /\ StoreCertificationsEnd
    /\ hcall[TxSlot].batch = batch

\* A step that is a call on the atomic write handle h.
CallOn(h) ==
    /\ last'.h = h
    /\ Returns(h)
    /\ \/ \E tr \in AllTokenRecords, owners \in AnyOwners :
             last'.op = "StoreToken" /\ StoreToken(h, tr, owners)
       \/ \E id \in TokenIDs, by \in AnyDeletedBy :
             last'.op = "Delete" /\ Delete(h, id, by)
       \/ Commit(h)
       \/ Rollback(h)

\* C1: rollback disposes all effects.  Between NewTokenDBTransaction and
\* Rollback no call on the handle (StoreToken, Delete, Rollback) changes the
\* committed tables the readers query, and Rollback leaves nothing of the
\* transaction's rows behind.
C1_RollbackDisposesAllEffects ==
    [][\A h \in Handles :
          /\ (hstate[h] = "open" /\ hstate'[h] /= "committed"
                  /\ last'.h = h /\ last'.op \in {"StoreToken", "Delete", "Rollback"})
                => tokens' = tokens /\ ownership' = ownership
          /\ (hstate[h] = "open" /\ hstate'[h] = "rolledback")
                => hwr'[h] = {} /\ hown'[h] = {}]_vars

\* C1 witness: a handle that had written rows was rolled back.
C1_Witness ==
    last.op = "Rollback" /\ last.err = "ok" /\ last.ids /= {}
        /\ last.ids \cap IDs(tokens) = {}

\* C2 as claimed: every call on a handle that was committed or rolled back
\* fails with IllegalState and changes no store state.
C2_AsClaimed ==
    [][\A h \in Handles :
          (Done(h) /\ last'.h = h /\ CallOn(h))
              => /\ last'.err = "IllegalState"
                 /\ UNCHANGED <<ttxVars, tokens, ownership, hstate, hwr, hown, hins, hdel>>]_vars

\* C2 amended: every call on a handle that was committed or rolled back fails
\* and changes no store state; it fails with IllegalState, except StoreToken
\* of an owned record without owners and owner wallet id, which fails with
\* NoOwner as on an open handle.
C2_UseAfterDoneFails ==
    [][\A h \in Handles :
          /\ (Done(h) /\ last'.h = h /\ CallOn(h))
                => /\ last'.err \in {"IllegalState", "NoOwner"}
                   /\ UNCHANGED <<ttxVars, tokens, ownership, hstate, hwr, hown, hins, hdel>>
          /\ (Done(h) /\ last'.h = h /\ last'.op = "StoreToken")
                => \A tr \in AllTokenRecords, owners \in AnyOwners :
                      StoreToken(h, tr, owners)
                          => (last'.err = "NoOwner" <=> NoOwner(tr, owners))
          /\ (Done(h) /\ last'.h = h
                /\ (Commit(h) \/ Rollback(h)
                      \/ \E id \in TokenIDs, by \in AnyDeletedBy : Delete(h, id, by)))
                => last'.err = "IllegalState"]_vars

\* C2 witness: a second Commit on a committed handle returned IllegalState.
C2_Witness ==
    /\ hstate[1] = "committed"
    /\ last = Ret("Commit", 1, {}, "IllegalState")
    /\ tokens /= {}

\* C3: when a handle commits, GetTokens([I]) for the id of every record it
\* stored returns that record's token if the record has owner = true and the
\* handle did not delete the token; otherwise it fails with NotFound for I.
C3_GetTokensAfterStore ==
    [][\A h \in Handles :
          CommitOpen(h) =>
            \A tr \in hins[h] :
              \A rows \in RowOrders(GetTokensQuery(tokens', <<ID(tr)>>)) :
                LET g == GetTokens(<<ID(tr)>>, rows)
                    deleted == \E c \in hdel[h] : c[1] = ID(tr) /\ c[3]
                IN  IF tr.owner /\ ~deleted
                    THEN /\ g.err = "ok"
                         /\ g.tokens = <<[owner_raw |-> tr.owner_raw,
                                          type |-> tr.token_type,
                                          quantity |-> tr.quantity]>>
                    ELSE g.err = "NotFound" /\ g.key = ID(tr)]_vars

\* C3 witness: a commit has made an owned, live token it stored readable.
C3_Witness ==
    /\ last.op = "Commit" /\ last.err = "ok"
    /\ \E r \in tokens :
          /\ ID(r) \in last.ids /\ r.owner /\ ~r.is_deleted
          /\ \A rows \in RowOrders(GetTokensQuery(tokens, <<ID(r)>>)) :
                GetTokens(<<ID(r)>>, rows).tokens = <<Token(r)>>

\* What WhoDeletedTokens([id]) returns on the rows toks, whatever the order
\* of the result set: deleted by `by`.
DeletedBy(toks, id, by) ==
    \A rows \in RowOrders(WhoDeletedTokensQuery(toks, <<id>>)) :
        LET w == WhoDeletedTokens(<<id>>, rows) IN
        w.err = "ok" /\ w.spentBy = <<by>> /\ w.isSpent = <<TRUE>>

\* C4 as claimed: when a handle commits, for every id it called
\* Delete(id, "X") on, whether or not a token row existed for the id,
\* IsMine(id) is false and WhoDeletedTokens([id]) returns (["X"], [true]).
C4_AsClaimed ==
    [][\A h \in Handles :
          CommitOpen(h) =>
            \A c \in hdel[h] :
              c[2] = "X" =>
                /\ ~IsMine(tokens', c[1][1], c[1][2])
                /\ DeletedBy(tokens', c[1], "X")]_vars

\* C4 amended: when a handle commits, for every id whose token row the
\* handle saw when it called Delete(id, by) (a committed row or one it stored
\* itself), IsMine(id) is false and WhoDeletedTokens([id]) returns
\* ([by], [true]).
C4_DeletedAfterCommit ==
    [][\A h \in Handles :
          CommitOpen(h) =>
            \A c \in hdel[h] :
              c[3] =>
                /\ ~IsMine(tokens', c[1][1], c[1][2])
                /\ DeletedBy(tokens', c[1], c[2])]_vars

\* C4 witness: a commit has made the deletion by "X" of an owned token
\* visible to IsMine and WhoDeletedTokens.
C4_Witness ==
    /\ last.op = "Commit" /\ last.err = "ok"
    /\ \E r \in tokens :
          /\ ID(r) \in last.ids /\ r.owner /\ r.is_deleted
          /\ ~IsMine(tokens, r.tx_id, r.idx)
          /\ DeletedBy(tokens, ID(r), "X")

\* The rows toks with those of the ids stamped with the time now.
Restamped(toks, ids, now) ==
    {IF ID(r) \in ids THEN [r EXCEPT !.spent_at = now] ELSE r : r \in toks}

\* Every row of toks with one of the ids is deleted by `by`.
AlreadyDeletedBy(toks, ids, by) ==
    /\ ids \subseteq IDs(toks)
    /\ \A r \in toks : ID(r) \in ids => r.is_deleted /\ r.spent_by = by

\* The rows the UPDATE of the call of DeleteTokens that the step ends has
\* matched: those that were committed when the statement began.
SeenBy(ids) ==
    IF hcall[StmtSlot] = Idle THEN SeqToSet(ids) \cap IDs(tokens)
    ELSE hcall[StmtSlot].seen

\* C5 as claimed: a second Delete / DeleteTokens with the same deleted-by is
\* not an error and leaves the rows, spent_at included, as the first left
\* them.
C5_AsClaimed ==
    [][/\ \A h \in Handles, id \in TokenIDs, by \in AnyDeletedBy :
            (DeleteReturns(h, id, by)
                /\ AlreadyDeletedBy(Visible(h), {id}, by))
              => /\ last'.err = "ok"
                 /\ Overlay(tokens', hwr'[h]) = Visible(h)
       /\ \A ids \in IDLists, by \in AnyDeletedBy :
            (DeleteTokensReturns(by, ids) /\ ids /= <<>>
                /\ AlreadyDeletedBy(tokens, SeqToSet(ids), by))
              => last'.err = "ok" /\ tokens' = tokens]_vars

\* What a second Delete on the handle h returns: the refusal of a
\* transaction that postgres aborted or that is over, the deadlock error of
\* postgres, the refusal of sqlite while another transaction holds the
\* write lock, and nil otherwise.
SecondDeleteErr(h) ==
    IF hstate[h] = "failed" THEN "Aborted"
    ELSE IF Done(h) THEN "IllegalState"
    ELSE IF Deadlocks(h) THEN "Deadlock"
    ELSE IF Busy(h) THEN "Locked" ELSE "ok"

\* C5 amended: a second Delete / DeleteTokens with the same deleted-by that
\* the backend runs is not an error and leaves the rows as the first left
\* them except for spent_at, which it sets to its own time.  One that the
\* backend does not run returns its error and changes no committed row: the
\* write lock of sqlite held by another transaction, the deadlock error of
\* postgres (which aborts the transaction of the handle), a transaction of
\* the handle aborted before, a handle that is over.
C5_DeleteIdempotentButTime ==
    [][/\ \A h \in Handles, id \in TokenIDs, by \in AnyDeletedBy :
            (DeleteReturns(h, id, by)
                /\ AlreadyDeletedBy(Visible(h), {id}, by))
              => /\ last'.err = SecondDeleteErr(h)
                 /\ tokens' = tokens /\ ownership' = ownership
                 /\ IF last'.err = "ok"
                    THEN /\ Overlay(tokens', hwr'[h])
                               = Restamped(Visible(h), {id}, CallTime(h))
                         /\ hown' = hown
                    ELSE IF last'.err = "Deadlock"
                    THEN /\ hstate'[h] = "failed"
                         /\ hwr'[h] = {} /\ hown'[h] = {}
                    ELSE UNCHANGED <<hstate, hwr, hown, hdel>>
       /\ \A ids \in IDLists, by \in AnyDeletedBy :
            (DeleteTokensReturns(by, ids) /\ ids /= <<>>
                /\ SeenBy(ids) = SeqToSet(ids)
                /\ AlreadyDeletedBy(tokens, SeqToSet(ids), by))
              => /\ last'.err = IF Deadlocks(StmtSlot) THEN "Deadlock"
                                ELSE IF Busy(StmtSlot) THEN "Locked" ELSE "ok"
                 /\ ownership' = ownership
                 /\ tokens' = IF last'.err = "ok"
                              THEN Restamped(tokens, SeqToSet(ids),
                                             CallTime(StmtSlot))
                              ELSE tokens]_vars

\* C5 witness: a handle has deleted again, at a later time and with the same
\* deleted-by, a token whose committed row was deleted already.
C5_Witness ==
    /\ last.op = "Delete" /\ last.err = "ok" /\ hstate[1] = "open"
    /\ \E r \in tokens, w \in hwr[1] :
          /\ ID(r) = ID(w) /\ r.is_deleted /\ w.is_deleted
          /\ r.spent_by = "X" /\ w.spent_by = "X"
          /\ r.spent_at = 0 /\ w.spent_at = 1

\* C6 as claimed: in every committed state every TOKENS row has
\* is_deleted = true if and only if spent_by is non-empty and spent_at is set.
C6_AsClaimed ==
    \A r \in tokens :
        r.is_deleted <=> (r.spent_by /= "" /\ r.spent_at /= NoTime)

\* The records a StoreToken call that returned ret may have been given.
StoredBy(ret) == {tr \in AllTokenRecords : {ID(tr)} = ret.ids}

\* A record StoreToken rejects: owned, no owners, no owner wallet id.
Ownerless(tr, owners) ==
    tr.owner /\ owners = <<>> /\ tr.owner_wallet_id = ""

\* C7: StoreToken(r, owners), on a handle or through TokenDB.StoreToken, with
\* r.owner = true, owners empty and r.owner_wallet_id empty fails with NoOwner
\* and inserts no TOKENS row and no OWNERSHIP row, committed or pending.

C7_NoOwnerFailsFirst ==
    [][last'.op \in {"StoreToken", "DBStoreToken"} =>
        \A tr \in StoredBy(last'), owners \in AnyOwners :
          Ownerless(tr, owners) =>
            /\ \A h \in Handles :
                  StoreTokenReturns(h, tr, owners)
                    => /\ last'.err = "NoOwner"
                       /\ UNCHANGED <<ttxVars, tokens, ownership, hwr, hown, hins>>
            /\ DBStoreTokenReturns(tr, owners)
                    => /\ last'.err = "NoOwner"
                       /\ UNCHANGED <<ttxVars, tokens, ownership, hwr, hown, hins>>]_vars

\* C7 witness: StoreToken on an open handle has failed with NoOwner for an id
\* that has no row, committed or pending.
C7_Witness ==
    /\ last.op = "StoreToken" /\ last.err = "NoOwner"
    /\ hstate[last.h] = "open"
    /\ last.ids \cap IDs(Visible(last.h)) = {}

\* C8: in every committed state every TOKENS row with owner = true has an
\* OWNERSHIP row for its id or a non-empty owner_wallet_id.
C8_OwnedTokenHasOwner ==
    \A r \in tokens :
        r.owner => \/ \E o \in ownership : o[1] = ID(r)
                   \/ r.owner_wallet_id /= ""

\* C8 witness: a committed owned token, since deleted, whose only owner is an
\* OWNERSHIP row.
C8_Witness ==
    \E r \in tokens :
        /\ r.owner /\ r.owner_wallet_id = "" /\ r.is_deleted
        /\ \E o \in ownership : o[1] = ID(r)

\* The id has a TOKENS row among toks.
HasRow(toks, id) == id \in IDs(toks)

\* The failed StoreToken of the handle h stores nothing: the rows of its
\* transaction are as they were, or, when postgres aborted the transaction
\* with the statement, undone.
StoresNothing(h) ==
    IF backend = "postgres" /\ Failed(last'.err)
    THEN /\ hstate'[h] = "failed"
         /\ hwr' = Cleared(hwr, h) /\ hown' = Cleared(hown, h)
         /\ hins' = Cleared(hins, h)
    ELSE UNCHANGED <<hstate, hwr, hown, hins>>

\* C9 as claimed: StoreToken for an id that already has a TOKENS row fails
\* with Conflict, whatever the record, and changes no row.
C9_AsClaimed ==
    [][last'.op \in {"StoreToken", "DBStoreToken"} =>
        \A tr \in StoredBy(last'), owners \in AnyOwners :
          /\ \A h \in Handles :
                ((StoreTokenReturns(h, tr, owners)
                        \/ StoreTokenDeadlocks(h, tr, owners))
                    /\ HasRow(Visible(h), ID(tr)))
                  => /\ last'.err = "Conflict"
                     /\ UNCHANGED <<ttxVars, tokens, ownership>>
                     /\ StoresNothing(h)
          /\ ((DBStoreTokenReturns(tr, owners) \/ DBStoreTokenDeadlocks(tr, owners))
                    /\ HasRow(tokens, ID(tr)))
                  => /\ last'.err = "Conflict"
                     /\ UNCHANGED <<ttxVars, tokens, ownership, hwr, hown, hins>>]_vars

\* What StoreToken of the caller c returns for an id that has a TOKENS row:
\* NoOwner from the precondition, which is checked first; then the refusal
\* of a handle whose transaction postgres aborted or is over, the deadlock
\* error of postgres, the refusal of sqlite while another transaction holds
\* the write lock; Conflict from the INSERT that the backend runs.
DuplicateErr(c, tr, owners) ==
    IF Ownerless(tr, owners) THEN "NoOwner"
    ELSE IF c \in Handles /\ hstate[c] = "failed" THEN "Aborted"
    ELSE IF c \in Handles /\ Done(c) THEN "IllegalState"
    ELSE IF Deadlocks(c) THEN "Deadlock"
    ELSE IF Busy(c) THEN "Locked" ELSE "Conflict"

\* C9 amended: StoreToken for an id that already has a TOKENS row fails and
\* changes no committed row, with every caller and in every state of its
\* transaction.  The error is Conflict when the record passes the NoOwner
\* precondition and the backend runs the INSERT; otherwise it is NoOwner,
\* Locked (sqlite), Deadlock (postgres), Aborted (postgres, a handle whose
\* transaction a failed statement aborted) or IllegalState (a handle that is
\* over).  The failed call stores nothing: the rows of the transaction are
\* as they were, except that postgres aborts the transaction of a handle
\* with the failed or deadlocked INSERT, which undoes what the handle stored
\* before.
C9_DuplicateKeyConflict ==
    [][last'.op \in {"StoreToken", "DBStoreToken"} =>
        \A tr \in StoredBy(last'), owners \in AnyOwners :
          /\ \A h \in Handles :
                ((StoreTokenReturns(h, tr, owners)
                        \/ StoreTokenDeadlocks(h, tr, owners))
                    /\ HasRow(Visible(h), ID(tr)))
                  => /\ last'.err = DuplicateErr(h, tr, owners)
                     /\ UNCHANGED <<ttxVars, tokens, ownership>>
                     /\ IF backend = "postgres"
                            /\ last'.err \in {"Conflict", "Deadlock"}
                        THEN /\ hstate'[h] = "failed"
                             /\ hwr' = Cleared(hwr, h) /\ hown' = Cleared(hown, h)
                             /\ hins' = Cleared(hins, h)
                        ELSE UNCHANGED <<hstate, hwr, hown, hins>>
          /\ ((DBStoreTokenReturns(tr, owners) \/ DBStoreTokenDeadlocks(tr, owners))
                    /\ HasRow(tokens, ID(tr)))
                  => /\ last'.err = DuplicateErr(TxSlot, tr, owners)
                     /\ UNCHANGED <<ttxVars, tokens, ownership, hwr, hown, hins>>]_vars

\* C9 witness: StoreToken on an open handle has failed with Conflict on an id
\* that has a committed row with an OWNERSHIP row.
C9_Witness ==
    /\ last.op = "StoreToken" /\ last.err = "Conflict"
    /\ InProgress(last.h)
    /\ \E r \in tokens : ID(r) \in last.ids /\ \E o \in ownership : o[1] = ID(r)

\* The payload columns of a TOKENS row are those of the record.
Carries(r, tr) ==
    /\ ID(r) = ID(tr)
    /\ r.owner_raw = tr.owner_raw /\ r.token_type = tr.token_type
    /\ r.quantity = tr.quantity /\ r.amount = tr.amount
    /\ r.owner_wallet_id = tr.owner_wallet_id /\ r.ledger = tr.ledger
    /\ r.owner = tr.owner /\ r.auditor = tr.auditor /\ r.issuer = tr.issuer

\* The handle g stores, with a record that passes the precondition, an id
\* that has a committed row or that another handle in progress has stored.
StoresTakenID(g, tr, owners) ==
    /\ ~Ownerless(tr, owners)
    /\ \/ HasRow(tokens, ID(tr))
       \/ \E h \in Handles : h /= g /\ InProgress(h) /\ ID(tr) \in IDs(hins[h])
    /\ hstate[g] = "open"
    /\ StoreTokenReturns(g, tr, owners)

\* C10 as claimed: of the handles open at the same time, at most one holds a
\* stored row for a given id; when it commits, the id had no committed row
\* before and has exactly one after, carrying the payload the committer
\* stored; and every other open handle that stores the id gets Conflict.
C10_AsClaimed ==
    /\ [](\A h, g \in Handles :
            h /= g => IDs(hins[h]) \cap IDs(hins[g]) = {})
    /\ [](\A r, q \in tokens : ID(r) = ID(q) => r = q)
    /\ [][\A h \in Handles :
            CommitOpen(h) =>
              \A tr \in hins[h] :
                /\ ~HasRow(tokens, ID(tr))
                /\ \E r \in tokens' : Carries(r, tr)
                /\ \A r \in tokens' : ID(r) = ID(tr) => Carries(r, tr)]_vars
    /\ [][last'.op = "StoreToken" =>
          \A g \in Handles, tr \in AllTokenRecords, owners \in AnyOwners :
            StoresTakenID(g, tr, owners)
              => last'.err = "Conflict" /\ StoresNothing(g)]_vars

\* C10 amended: of the handles open at the same time, at most one holds a
\* stored row for a given id; when it commits, the id had no committed row
\* before and has exactly one after, carrying the payload the committer
\* stored; and every other open handle that stores the id fails and stores
\* nothing: with Locked when sqlite refuses the INSERT because the write lock
\* is held by another transaction, with Conflict in every other case (on
\* postgres the INSERT has waited for the other transaction to end).
C10_SameKeyWritersSerialize ==
    /\ [](\A h, g \in Handles :
            h /= g => IDs(hins[h]) \cap IDs(hins[g]) = {})
    /\ [](\A r, q \in tokens : ID(r) = ID(q) => r = q)
    /\ [][\A h \in Handles :
            CommitOpen(h) =>
              \A tr \in hins[h] :
                /\ ~HasRow(tokens, ID(tr))
                /\ \E r \in tokens' : Carries(r, tr)
                /\ \A r \in tokens' : ID(r) = ID(tr) => Carries(r, tr)]_vars
    /\ [][last'.op = "StoreToken" =>
          \A g \in Handles, tr \in AllTokenRecords, owners \in AnyOwners :
            StoresTakenID(g, tr, owners)
              => /\ last'.err = IF Busy(g) THEN "Locked" ELSE "Conflict"
                 /\ (last'.err = "Conflict" => HasRow(tokens, ID(tr)))
                 /\ StoresNothing(g)]_vars

\* C10 witness: on sqlite handle 1 has stored the row of an id and is still
\* open, and handle 2, open too, has stored the same id and got Locked.
C10_Witness ==
    /\ last = Ret("StoreToken", 2, {<<"T1", 0>>}, "Locked")
    /\ hstate[1] = "open" /\ hstate[2] = "open"
    /\ <<"T1", 0>> \in IDs(hins[1]) /\ hins[2] = {}
    /\ tokens = {}

\* The columns of a TOKENS row other than is_deleted, spent_by, spent_at.
Payload(r) ==
    [r EXCEPT !.is_deleted = FALSE, !.spent_by = "", !.spent_at = NoTime]

\* From the rows pre to the rows post no row was added or removed, the rows
\* of the ids kept their payload and the other rows did not change.
SoftlyDeleted(pre, post, ids) ==
    /\ IDs(post) = IDs(pre)
    /\ Cardinality(post) = Cardinality(pre)
    /\ \A r \in pre :
          IF ID(r) \in ids
          THEN \E q \in post : ID(q) = ID(r) /\ Payload(q) = Payload(r)
          ELSE r \in post

\* C11: Delete and DeleteTokens, however they return, change only
\* is_deleted, spent_by and spent_at of the rows they address and no
\* OWNERSHIP row (the deadlock error of postgres aborts the transaction of a
\* handle, which undoes its rows and changes no committed one); and no step
\* of any operation removes a committed TOKENS row, changes its other
\* columns, or removes an OWNERSHIP row.
C11_DeletionIsSoft ==
    [][/\ \A by \in AnyDeletedBy, ids \in IDLists :
            DeleteTokensReturns(by, ids) =>
              SoftlyDeleted(tokens, tokens', SeqToSet(ids)) /\ ownership' = ownership
       /\ \A h \in Handles, id \in TokenIDs, by \in AnyDeletedBy :
            DeleteReturns(h, id, by) =>
              /\ tokens' = tokens /\ ownership' = ownership
              /\ IF last'.err = "Deadlock"
                 THEN hwr'[h] = {} /\ hown'[h] = {}
                 ELSE /\ SoftlyDeleted(Visible(h), Overlay(tokens', hwr'[h]), {id})
                      /\ hown' = hown
       /\ \A r \in tokens :
            \E q \in tokens' : ID(q) = ID(r) /\ Payload(q) = Payload(r)
       /\ ownership \subseteq ownership']_vars

\* C11 witness: DeleteTokens has deleted a committed token that has an
\* OWNERSHIP row, next to a live token.
C11_Witness ==
    /\ last.op = "DeleteTokens"
    /\ \E r \in tokens :
          /\ ID(r) \in last.ids /\ r.is_deleted /\ r.spent_by = "X"
          /\ \E o \in ownership : o[1] = ID(r)
    /\ \E r \in tokens : ~r.is_deleted

\* C12: IsMine(tx-id, index) is true if and only if a TOKENS row with that
\* id exists with owner = true and is_deleted = false; a missing row, a
\* deleted row and a row with owner = false all give false.
C12_IsMine ==
    \A id \in TokenIDs \cup {<<"T3", 0>>, <<"T1", 1>>} :
        /\ IsMine(tokens, id[1], id[2])
              <=> \E r \in RowsOf(tokens, id) : r.owner /\ ~r.is_deleted
        /\ RowsOf(tokens, id) = {} => ~IsMine(tokens, id[1], id[2])
        /\ \A r \in RowsOf(tokens, id) :
              (r.is_deleted \/ ~r.owner) => ~IsMine(tokens, id[1], id[2])

\* C12 witness: IsMine is true for a live owned token and false for a
\* deleted owned token; no row has the index 1.
C12_Witness ==
    /\ IsMine(tokens, "T2", 0) /\ ~IsMine(tokens, "T1", 0)
    /\ ~IsMine(tokens, "T1", 1)
    /\ \E r \in tokens : ID(r) = <<"T1", 0>> /\ r.owner /\ r.is_deleted

\* The id lists the lookups are called with: every list of at most
\* MaxInputs ids, repetitions included.
InputLists == UNION {[1..n -> ReadIDs] : n \in 0..MaxInputs}

\* The positions of inputs whose id is not among the rows.
Unresolved(inputs, rows) ==
    {i \in 1..Len(inputs) : inputs[i] \notin IDs(rows)}

\* A lookup result as C15 describes it: NotFound, with no partial result and
\* naming the first unresolved id, exactly when some id is unresolved.
NotFoundIffUnresolved(inputs, eligible, res) ==
    LET u == Unresolved(inputs, eligible) IN
    IF u = {} THEN res.err = "ok"
    ELSE /\ res.err = "NotFound" /\ res.tokens = <<>>
         /\ res.key = inputs[CHOOSE i \in u : \A k \in u : i <= k]

\* C15 as claimed: GetTokens(ids) and ListAuditTokens(ids) fail with NotFound
\* and no partial result if and only if some input id has no eligible row,
\* and the error names the first such id in input order.
C15_AsClaimed ==
    \A ids \in InputLists :
        /\ \A rows \in RowOrders(GetTokensQuery(tokens, ids)) :
              NotFoundIffUnresolved(ids, GetTokensQuery(tokens, ids),
                                    GetTokens(ids, rows))
        /\ \A rows \in RowOrders(ListAuditTokensQuery(tokens, ids)) :
              NotFoundIffUnresolved(ids, ListAuditTokensQuery(tokens, ids),
                                    ListAuditTokens(ids, rows))

\* The ledger bytes of the TOKENS row of an id.
LedgerOf(toks, id) == (CHOOSE r \in toks : ID(r) = id).ledger

\* The positions of ids that have no TOKENS row or one with empty ledger
\* bytes.
NoOutput(toks, ids) ==
    {i \in 1..Len(ids) :
        ids[i] \notin IDs(toks) \/ LedgerOf(toks, ids[i]) = ""}

\* C16: GetTokenOutputs(ids, callback) invokes the callback once per input
\* position, in input order, with the ledger bytes of that id; when an id
\* has no TOKENS row (NotFound) or empty ledger bytes (EmptyToken) it fails
\* without any invocation; a callback error ends the invocations and is
\* returned.
C16_GetTokenOutputs ==
    \A ids \in InputLists, failAt \in 0..MaxInputs :
        LET g == GetTokenOutputs(tokens, ids, failAt)
            bad == NoOutput(tokens, ids)
            first == CHOOSE i \in bad : \A k \in bad : i <= k
            n == IF failAt \in 1..Len(ids) THEN failAt ELSE Len(ids)
        IN  IF bad /= {}
            THEN /\ g.calls = <<>> /\ g.key = ids[first]
                 /\ g.err = IF ids[first] \in IDs(tokens)
                            THEN "EmptyToken" ELSE "NotFound"
            ELSE /\ g.err = IF n = failAt /\ n > 0 THEN "Callback" ELSE "ok"
                 /\ Len(g.calls) = n
                 /\ \A i \in 1..n :
                      g.calls[i] = <<ids[i], LedgerOf(tokens, ids[i])>>

\* C16 witness: two tokens with ledger bytes and one with empty ledger
\* bytes: the callback sees the first two in input order, stops at a
\* callback error, and is not invoked when the list holds the third.
C16_Witness ==
    /\ GetTokenOutputs(tokens, <<<<"T2", 0>>, <<"T1", 1>>>>, 0)
         = [err |-> "ok", key |-> <<>>,
            calls |-> <<<<<<"T2", 0>>, "LC">>, <<<<"T1", 1>>, "LB">>>>]
    /\ GetTokenOutputs(tokens, <<<<"T2", 0>>, <<"T1", 1>>>>, 1)
         = [err |-> "Callback", key |-> <<>>,
            calls |-> <<<<<<"T2", 0>>, "LC">>>>]
    /\ GetTokenOutputs(tokens, <<<<"T2", 0>>, <<"T1", 0>>>>, 0)
         = [err |-> "EmptyToken", key |-> <<"T1", 0>>, calls |-> <<>>]

\* C17 as claimed: after TokenDB.StoreToken(r, owners) has stored and
\* committed the token, QueryTokenDetails({ids: [I]}) returns, in whatever
\* order the rows arrive, exactly max(1, |owners|) rows: one when owners is
\* empty.
C17_AsClaimed ==
    [][last'.op = "DBStoreToken" /\ last'.err = "ok" =>
        \A tr \in ReadRecords, owners \in ReadOwners :
            DBStoreTokenReturns(tr, owners) =>
              \A rows \in RowOrders(QueryTokenDetailsQuery(tokens', ownership',
                                        Params("", "", <<ID(tr)>>, FALSE))) :
                LET d == QueryTokenDetails(rows) IN
                /\ d.err = "ok"
                /\ Len(d.deets) = IF Len(owners) = 0 THEN 1 ELSE Len(owners)]_vars

\* C18 as stated: with no row PublicParams returns empty, and every
\* StorePublicParams succeeds and makes its bytes the ones PublicParams
\* returns.
C18_AsClaimed ==
    [][/\ pparams = {} => PublicParams(pparams) = ""
       /\ \A raw \in ParamsRaws :
            StorePublicParams(raw)
                => last'.err = "ok" /\ PublicParams(pparams') = raw]_vars

\* The ids a certification is asked for.
CertIDs == {e.id : e \in CertEntries} \ {NilID}

\* C19: a StoreCertifications that succeeds leaves, for each of its entries
\* (I, c): when c is non-empty, GetCertifications([I]) = [c] and
\* ExistsCertification(I) true; when c is empty, GetCertifications([I])
\* failing with NotCertified and ExistsCertification(I) false.  At all times
\* an id with no certification row, or with an empty one, gives NotCertified
\* and false.
C19_CertificationRoundTrip ==
    /\ [](\A id \in CertIDs :
            (\A c \in certs : c.id = id => c.certification = "")
                => /\ GetCertifications(certs, <<id>>).err = "NotCertified"
                   /\ GetCertifications(certs, <<id>>).key = id
                   /\ ~ExistsCertification(certs, id))
    /\ [][last'.op = "StoreCertifications" /\ last'.err = "ok"
            => \A batch \in CertBatches :
                 StoreCertificationsReturns(batch)
                    => \A i \in 1..Len(batch) :
                         LET I == batch[i].id
                             c == batch[i].certification
                             got == GetCertifications(certs', <<I>>)
                         IN  /\ ExistsCertification(certs', I) <=> c /= ""
                             /\ c /= "" => got.err = "ok"
                                           /\ got.certifications = <<c>>
                             /\ c = "" => got.err = "NotCertified"]_vars

\* C19 witness: a batch has been stored that certified T2:0 with bytes and
\* T1:0 with none; the first reads back, the second does not.
C19_Witness ==
    /\ last = Ret("StoreCertifications", 0, {<<"T1", 0>>, <<"T2", 0>>}, "ok")
    /\ [id |-> <<"T2", 0>>, certification |-> "c1"] \in certs
    /\ [id |-> <<"T1", 0>>, certification |-> ""] \in certs
    /\ GetCertifications(certs, <<<<"T2", 0>>>>).certifications = <<"c1">>
    /\ ExistsCertification(certs, <<"T2", 0>>)
    /\ GetCertifications(certs, <<<<"T1", 0>>>>).err = "NotCertified"
    /\ ~ExistsCertification(certs, <<"T1", 0>>)

\* C20: a StoreCertifications that fails, on a nil id, on an id that has a
\* certification or on an id without a TOKENS row, leaves the certifications
\* as they were, entries before the failing one included; one that succeeds
\* has stored every entry of its batch and nothing else; and no entry is
\* stored before the call returns.
C20_AtomicBatch ==
    [][/\ \A batch \in CertBatches :
            StoreCertificationsReturns(batch)
              => LET ids == last'.ids
                     fails == \/ NilID \in ids
                              \/ \E id \in ids : \E c \in certs : c.id = id
                              \/ \E id \in ids : \A t \in tokens : ID(t) /= id
                 IN  /\ fails => last'.err /= "ok"
                     /\ last'.err /= "ok" => certs' = certs
                     /\ last'.err = "ok" => certs' = certs \cup SeqToSet(batch)
       /\ ~Returns(TxSlot) => certs' = certs]_vars

\* C20 witness: a batch whose first entry could be inserted and whose second
\* could not has failed, and the first entry's id has no certification.
C20_Witness ==
    /\ last = Ret("StoreCertifications", 0, {<<"T1", 0>>, <<"T1", 1>>},
                  "TokenDoesNotExist")
    /\ \E t \in tokens : ID(t) = <<"T1", 0>>
    /\ \A c \in certs : c.id /= <<"T1", 0>>

\* The row of id among rows.
RowOf(rows, id) == CHOOSE r \in rows : ID(r) = id

\* C14 as stated: for every id list whose entries all resolve, and every
\* order in which the rows arrive, GetTokens, ListAuditTokens,
\* GetTokenOutputs, GetCertifications and WhoDeletedTokens return arrays
\* whose position i holds the data of ids[i].
C14_AsClaimed ==
    \A ids \in InputLists :
      LET n == Len(ids)
          live == GetTokensQuery(tokens, ids)
          audited == ListAuditTokensQuery(tokens, ids)
          all == WhoDeletedTokensQuery(tokens, ids)
          out == GetTokenOutputs(tokens, ids, 0)
          cert == GetCertifications(certs, ids)
      IN
      /\ Unresolved(ids, live) = {}
            => \A rows \in RowOrders(live) :
                 LET res == GetTokens(ids, rows) IN
                 /\ res.err = "ok"
                 /\ res.tokens = [i \in 1..n |-> Token(RowOf(live, ids[i]))]
      /\ Unresolved(ids, audited) = {}
            => \A rows \in RowOrders(audited) :
                 LET res == ListAuditTokens(ids, rows) IN
                 /\ res.err = "ok"
                 /\ res.tokens = [i \in 1..n |-> Token(RowOf(audited, ids[i]))]
      /\ NoOutput(tokens, ids) = {}
            => /\ out.err = "ok"
               /\ out.calls = [i \in 1..n |-> <<ids[i], LedgerOf(tokens, ids[i])>>]
      /\ (\A i \in 1..n : \E c \in certs : c.id = ids[i] /\ c.certification /= "")
            => /\ cert.err = "ok"
               /\ cert.certifications =
                    [i \in 1..n |->
                        (CHOOSE c \in certs : c.id = ids[i]).certification]
      /\ Unresolved(ids, all) = {}
            => \A rows \in RowOrders(all) :
                 LET res == WhoDeletedTokens(ids, rows) IN
                 /\ res.err = "ok"
                 /\ res.spentBy = [i \in 1..n |-> RowOf(all, ids[i]).spent_by]
                 /\ res.isSpent = [i \in 1..n |-> RowOf(all, ids[i]).is_deleted]

\* No OWNERSHIP row and no CERTIFICATIONS row without its TOKENS row.
NoDangling(toks, owns, cs) ==
    /\ \A o \in owns : o[1] \in IDs(toks)
    /\ \A c \in cs : c.id \in IDs(toks)

\* The step is the INSERT of TokenDB.StoreCertifications for an id without
\* a TOKENS row.
InsertsDangling ==
    /\ hcall[TxSlot].at = "loop"
    /\ StoreCertificationsLoop
    /\ Head(hcall[TxSlot].rest).id \notin IDs(tokens) \cup {NilID}

\* No insert of an OWNERSHIP row references an id without a TOKENS row: the
\* rows a transaction has written refer to tokens it sees.
OwnershipInsertsFollowToken ==
    \A c \in Slots : \A o \in hown[c] : o[1] \in IDs(Overlay(tokens, hwr[c]))

\* C21 as stated: an insert for an id without a TOKENS row is rejected with
\* TokenDoesNotExist, tokenDBError maps every error of a backend whose
\* message contains "foreign key" to TokenDoesNotExist, and no dangling
\* OWNERSHIP or CERTIFICATIONS row exists.
C21_AsClaimed ==
    [][/\ InsertsDangling => hcall'[TxSlot].err = "TokenDoesNotExist"
       /\ (\E batch \in FKBatches : StoreCertificationsReturns(batch))
            /\ (\E id \in last'.ids : id \notin IDs(tokens))
          => last'.err = "TokenDoesNotExist" /\ certs' = certs
       /\ last'.op = "tokenDBError"
            /\ Contains(ToLower(last'.msg), <<"foreign", "key">>)
          => last'.err = "TokenDoesNotExist"
       /\ OwnershipInsertsFollowToken'
       /\ NoDangling(tokens', ownership', certs')]_vars

\* C21, amended: an insert for an id without a TOKENS row is rejected, with
\* TokenDoesNotExist unless sqlite refuses to run the INSERT because another
\* transaction holds the write lock (Locked, returned as it came);
\* tokenDBError maps every error of a backend whose message contains
\* "foreign key" to TokenDoesNotExist and returns the others as they came;
\* no insert of an OWNERSHIP row references a missing token, and no dangling
\* OWNERSHIP or CERTIFICATIONS row exists.
C21_ForeignKeyConstraintMapped ==
    /\ [](NoDangling(tokens, ownership, certs) /\ OwnershipInsertsFollowToken)
    /\ [][/\ InsertsDangling
             => hcall'[TxSlot].err
                   = IF Busy(TxSlot) THEN "Locked" ELSE "TokenDoesNotExist"
          /\ (\E batch \in FKBatches : StoreCertificationsReturns(batch))
               /\ (\E id \in last'.ids : id \notin IDs(tokens))
             => /\ last'.err \in {"TokenDoesNotExist"}
                                  \cup (IF backend = "sqlite" THEN {"Locked"} ELSE {})
                /\ certs' = certs
          /\ \A err \in BackendErrors :
                (last'.op = "tokenDBError" /\ tokenDBErrorOf(err))
                  => last'.err
                        = IF Contains(ToLower(err.msg), <<"foreign", "key">>)
                          THEN "TokenDoesNotExist" ELSE err.kind]_vars

\* C21 witness: with the token T1:0 stored, a certification for T1:1, which
\* has no TOKENS row, has been rejected with TokenDoesNotExist.
C21_Witness ==
    /\ last = Ret("StoreCertifications", 0, {<<"T1", 1>>}, "TokenDoesNotExist")
    /\ IDs(tokens) = {<<"T1", 0>>}
    /\ \E o \in ownership : o[1] = <<"T1", 0>>

\* The amounts of a set of stream positions, and of the records to
\* recipient eid in type typ, added up.
RECURSIVE SumOver(_, _)
SumOver(stream, positions) ==
    IF positions = {} THEN 0
    ELSE LET i == CHOOSE k \in positions : TRUE IN
         stream[i].amount + SumOver(stream, positions \ {i})

OutputTotal(record, eid, typ) ==
    SumOver(record.outputs,
            {i \in 1..Len(record.outputs) :
                /\ record.outputs[i].enrollment_id = eid
                /\ record.outputs[i].type = typ})

RecordTotal(txs, eid, typ) ==
    SumOver(txs, {i \in 1..Len(txs) :
                    txs[i].recipient_eid = eid /\ txs[i].token_type = typ})

AuditEIDs == {t.enrollment_id : t \in AuditOutputs}
AuditTypes == {t.type : t \in AuditOutputs}

\* The action indexes of a record that have an input or an output.
ActionsOf(record) ==
    {record.inputs[i].action_index : i \in 1..Len(record.inputs)}
        \cup {record.outputs[i].action_index : i \in 1..Len(record.outputs)}

\* C28 as stated: for every audit record TransactionRecords accepts and
\* every (enrollment id, type), the outputs with that id and type add up to
\* what the emitted records with that recipient and type add up to.
C28_AsClaimed ==
    tret.op = "TransactionRecords" /\ tret.res.err = "ok"
        => \A eid \in AuditEIDs, typ \in AuditTypes :
              OutputTotal(tret.record, eid, typ)
                 = RecordTotal(tret.res.txs, eid, typ)

\* C28, amended: the same for every accepted audit record whose action
\* indexes have no gap (every index below one that has an input or an
\* output has one too).
C28_ConservesValue ==
    (/\ tret.op = "TransactionRecords" /\ tret.res.err = "ok"
     /\ \A k \in ActionsOf(tret.record) :
           \A j \in 0..k : j \in ActionsOf(tret.record))
        => \A eid \in AuditEIDs, typ \in AuditTypes :
              OutputTotal(tret.record, eid, typ)
                 = RecordTotal(tret.res.txs, eid, typ)

\* C28 witness: two outputs of 30 USD to bob in action 0 and one of 30 USD
\* without enrollment id in action 1 have become a record of 60 and a
\* record of 30.
C28_Witness ==
    /\ tret.op = "TransactionRecords" /\ tret.res.err = "ok"
    /\ ActionsOf(tret.record) = {0, 1}
    /\ OutputTotal(tret.record, "bob", "USD") = 60
    /\ OutputTotal(tret.record, "", "USD") = 30
    /\ Len(tret.res.txs) = 2 /\ tret.res.txs[1].amount = 60

\* The distinct enrollment ids of the inputs of action k.
InputEIDs(record, k) ==
    {record.inputs[i].enrollment_id :
        i \in {j \in 1..Len(record.inputs) : record.inputs[j].action_index = k}}
      \ {""}

\* Action k is examined: every action before it has an input or an output
\* and inputs of at most one enrollment id, and k has an input or an output.
Examined(record, k) ==
    \A j \in 0..k : /\ j \in ActionsOf(record)
                    /\ j < k => Cardinality(InputEIDs(record, j)) <= 1

\* C29: TransactionRecords fails with InvalidAudit, returning no record,
\* exactly when an action it examines has inputs of more than one enrollment
\* id; otherwise it succeeds.
C29_InvalidAudit ==
    tret.op = "TransactionRecords"
        => LET bad == \E k \in ActionsOf(tret.record) :
                         /\ Examined(tret.record, k)
                         /\ Cardinality(InputEIDs(tret.record, k)) > 1
           IN  /\ bad => tret.res.err = "InvalidAudit" /\ tret.res.txs = <<>>
               /\ ~bad => tret.res.err = "ok"

\* C29 witness: action 0 has an output that makes a record, action 1 has
\* inputs of alice and of bob; the call has failed and returned no record.
C29_Witness ==
    /\ tret.op = "TransactionRecords" /\ tret.res.err = "InvalidAudit"
    /\ tret.res.txs = <<>>
    /\ InputEIDs(tret.record, 1) = {"alice", "bob"}
    /\ \E i \in 1..Len(tret.record.outputs) :
          /\ tret.record.outputs[i].action_index = 0
          /\ tret.record.outputs[i].amount > 0

\* C30: in every emitted record the action type is Issue exactly when the
\* sender is empty, Redeem exactly when the sender is not empty and the
\* recipient is, Transfer exactly when neither is empty; the status is
\* Pending and the amount is positive.
C30_ActionType ==
    tret.op = "TransactionRecords"
        => \A i \in 1..Len(tret.res.txs) :
              LET tx == tret.res.txs[i] IN
              /\ tx.action_type = "Issue" <=> tx.sender_eid = ""
              /\ tx.action_type = "Redeem"
                    <=> tx.sender_eid /= "" /\ tx.recipient_eid = ""
              /\ tx.action_type = "Transfer"
                    <=> tx.sender_eid /= "" /\ tx.recipient_eid /= ""
              /\ tx.status = "Pending"
              /\ tx.amount > 0

\* C30 witness: one action of alice with two outputs has made a Transfer to
\* bob and a Redeem.
C30_Witness ==
    /\ tret.op = "TransactionRecords" /\ tret.res.err = "ok"
    /\ Len(tret.res.txs) = 2
    /\ \E i, j \in 1..2 :
          /\ tret.res.txs[i].action_type = "Transfer"
          /\ tret.res.txs[i].sender_eid = "alice"
          /\ tret.res.txs[i].recipient_eid = "bob"
          /\ tret.res.txs[j].action_type = "Redeem"
    /\ Len(tret.record.outputs) = 2

\* The executor whose SetStatus publishes its event in this step.
Publishes(x) == spc[x].at = "notify" /\ spc'[x].at = "idle"

\* The events of a listener are in the order of the updates, but for an
\* update whose call was still under way at the delivery.
InCallOrder ==
    \A l \in Listeners : \A i, j \in 1..Len(events[l]) :
        i < j => \/ events[l][i].seq < events[l][j].seq
                 \/ events[l][j].seq \in events[l][i].overtook

\* C22: a SetStatus whose update succeeded delivers exactly one event, its
\* own, to the end of the queue of every listener registered at the
\* publication and none to the others; no other step, a SetStatus whose
\* update fails included, delivers an event; the events of successive calls
\* are in the order of the calls.
C22_OneEventEach ==
    /\ []InCallOrder
    /\ [][\A l \in Listeners :
            IF \E x \in Executors : Publishes(x)
            THEN LET x == CHOOSE y \in Executors : Publishes(y)
                 IN  IF l \in listeners
                     THEN /\ Len(events'[l]) = Len(events[l]) + 1
                          /\ SubSeq(events'[l], 1, Len(events[l])) = events[l]
                          /\ events'[l][Len(events'[l])].tx = spc[x].tx
                          /\ events'[l][Len(events'[l])].status = spc[x].status
                          /\ tret'.err = "ok"
                     ELSE events'[l] = events[l]
            ELSE events'[l] = events[l]]_vars

\* C22 witness: two successive calls have set T1 to Confirmed and then to
\* Deleted; l1, registered throughout, has both events in this order, l2,
\* registered after the first, has the second only; a failed call is the
\* last to have returned.
C22_Witness ==
    /\ Len(events["l1"]) = 2 /\ Len(events["l2"]) = 1
    /\ events["l1"][1].status = "Confirmed" /\ events["l1"][1].overtook = {}
    /\ events["l1"][2].status = "Deleted" /\ events["l1"][1].tx = "T1"
    /\ events["l1"][2] = events["l2"][1]
    /\ events["l1"][1].seq < events["l1"][2].seq
    /\ applied[events["l1"][1].seq].n = 2
    /\ tret = TRet("SetStatus", "T1", "Backend")

\* C23: when an event reaches a listener the update it tells of is in the
\* backend already, and a status that GetStatus returns to the listener was
\* written by that update or after it.
C23_DurableBeforeEvent ==
    [][\A l \in Listeners :
          Len(events'[l]) > Len(events[l])
            => LET e == events'[l][Len(events'[l])]
               IN  /\ e.seq \in 1..Len(applied)
                   /\ applied[e.seq].by = "SetStatus"
                   /\ applied[e.seq].tx = e.tx
                   /\ applied[e.seq].status = e.status
                   /\ e.seen.err = "ok"
                        => \E k \in e.seq..Len(applied) :
                              /\ applied[k].tx = e.tx
                              /\ applied[k].status = e.seen.status]_vars

\* C23 witness: the event of T1 set to Confirmed has reached l1 after a
\* second executor had set T1 to Deleted: the listener sees Deleted.
C23_Witness ==
    /\ Len(events["l1"]) = 1
    /\ events["l1"][1].tx = "T1" /\ events["l1"][1].status = "Confirmed"
    /\ events["l1"][1].seen = [status |-> "Deleted", err |-> "ok"]
    /\ events["l1"][1].seq < Len(applied)

StatusOf(txID) == BackendGetStatus(transactions, validations, txID).status

\* C24 as claimed: a transaction that is Confirmed or Deleted keeps its
\* status, and no transaction goes back to Pending or Unknown.
C24_AsClaimed ==
    [][\A txID \in TxIDs :
          /\ StatusOf(txID) \in {"Confirmed", "Deleted"}
                => StatusOf(txID)' = StatusOf(txID)
          /\ StatusOf(txID) = "Pending" => StatusOf(txID)' /= "Unknown"]_vars

\* C24: the records of an append are Pending, and an update of SetStatus
\* sets the records of its transaction to the status it is given, whatever
\* their status was; nothing else changes a status.
C24_SetStatusSetsAny ==
    [][\A txID \in TxIDs :
          /\ tret'.op = "AppendTransactionRecord" /\ tret'.err = "ok"
                /\ tret'.tx = txID /\ Len(transactions') > Len(transactions)
                => StatusOf(txID)' = "Pending"
          /\ \A x \in Executors :
                spc[x].at = "idle" /\ spc'[x].at = "notify"
                    /\ spc'[x].tx = txID /\ StatusOf(txID) /= "Unknown"
                => StatusOf(txID)' = spc'[x].status
          /\ StatusOf(txID)' /= StatusOf(txID)
                => \/ tret'.op = "AppendTransactionRecord" /\ tret'.tx = txID
                   \/ tret'.op = "SetStatusUpdate" /\ tret'.tx = txID]_vars

\* C24 witness: T1, appended Pending and then Confirmed, is Pending again.
C24_Witness ==
    /\ Len(applied) = 3
    /\ applied[1] = [tx |-> "T1", status |-> "Pending", by |-> "Append", n |-> 2]
    /\ applied[2].tx = "T1" /\ applied[2].status = "Confirmed"
    /\ applied[3].tx = "T1" /\ applied[3].status = "Pending"
    /\ StatusOf("T1") = "Pending"

\* C25 as claimed: GetTokenRequest returns what the backend alone would:
\* the bytes it serves for a transaction are the bytes of the request the
\* backend holds for it.
C25_AsClaimed ==
    [][tret'.op = "GetTokenRequest" /\ tret'.err = "ok"
          => tret'.raw = BackendGetTokenRequest(requests', tret'.tx)]_vars

\* C26 as claimed: GetTokenRequest serves an entry the cache holds when it
\* reads it without reaching the backend, and a miss that the backend
\* answers with a request leaves that request in the cache for the next
\* call.
C26_AsClaimed ==
    [][/\ \A x \in Executors, txID \in TxIDs :
            (GetTokenRequest(x, txID) /\ CacheGet(cache, txID).ok)
               => /\ tret'.op = "GetTokenRequest" /\ ~tret'.backend
                  /\ tret'.raw = CacheGet(cache, txID).value
       /\ tret'.op = "GetTokenRequest"
            /\ tret'.backend /\ tret'.err = "ok" /\ tret'.raw /= ""
          => CacheGet(cache', tret'.tx) = [ok |-> TRUE, value |-> tret'.raw]]_vars

\* C27 as claimed: after an AppendTransactionRecord that returns an error
\* no request and no record of its anchor is in the backend; after one
\* that succeeds its request and its records are.
C27_AsClaimed ==
    [][tret'.op = "AppendTransactionRecord"
          => IF tret'.err = "ok"
             THEN /\ \E q \in requests' : q.tx_id = tret'.tx
                  /\ \E i \in 1..Len(transactions') :
                        transactions'[i].tx_id = tret'.tx
             ELSE /\ \A q \in requests' : q.tx_id /= tret'.tx
                  /\ \A i \in 1..Len(transactions') :
                        transactions'[i].tx_id /= tret'.tx]_vars

\* C27: an AppendTransactionRecord that succeeds adds to the backend the
\* request of its anchor and, after the records already there, all the
\* records TransactionRecords makes of it; one that returns an error leaves
\* the requests and the records of the backend as they were.
C27_AllOrNothing ==
    [][tret'.op = "AppendTransactionRecord"
          => IF tret'.err = "ok"
             THEN \E req \in TokenRequests :
                     /\ req.anchor = tret'.tx
                     /\ \A q \in requests : q.tx_id /= req.anchor
                     /\ requests' = requests \cup
                            {[tx_id |-> req.anchor, raw |-> req.raw]}
                     /\ transactions' = transactions \o
                            TransactionRecords(
                                [anchor |-> req.anchor, inputs |-> req.inputs,
                                 outputs |-> req.outputs], clock).txs
             ELSE requests' = requests /\ transactions' = transactions]_vars

\* C27 witness: the transfer of T1 is stored with its two records, and an
\* append of other bytes for T1 has failed on the stored request.
C27_Witness ==
    /\ tret = TRet("AppendTransactionRecord", "T1", "Conflict")
    /\ requests = {[tx_id |-> "T1", raw |-> "r1"]}
    /\ Len(transactions) = 2
    /\ transactions[1].recipient_eid = "bob" /\ transactions[1].amount = 70
    /\ CacheGet(cache, "T1").value = "r1x"

\* C31 as claimed: an action with one input of an enrollment id and no
\* output gives exactly one record, a Redeem of the input's amount from
\* that enrollment id to nobody.
C31_AsClaimed ==
    tret.op = "TransactionRecords" /\ tret.record.outputs = <<>>
        /\ Len(tret.record.inputs) = 1
        /\ tret.record.inputs[1].action_index = 0
        /\ tret.record.inputs[1].enrollment_id /= ""
        => /\ Len(tret.res.txs) = 1
           /\ tret.res.txs[1].action_type = "Redeem"
           /\ tret.res.txs[1].sender_eid = tret.record.inputs[1].enrollment_id
           /\ tret.res.txs[1].recipient_eid = ""
           /\ tret.res.txs[1].amount = tret.record.inputs[1].amount

\* C31: an action with one input of an enrollment id gives no record when it
\* has no output, and exactly one record, a Redeem from that enrollment id
\* to nobody of the output's amount and type, when its only output is a
\* positive amount without an enrollment id.
C31_RedeemFromBurnOutput ==
    tret.op = "TransactionRecords" /\ Len(tret.record.inputs) = 1
        /\ tret.record.inputs[1].action_index = 0
        /\ tret.record.inputs[1].enrollment_id /= ""
        => /\ tret.record.outputs = <<>>
                => tret.res.err = "ok" /\ tret.res.txs = <<>>
           /\ (/\ Len(tret.record.outputs) = 1
               /\ tret.record.outputs[1].action_index = 0
               /\ tret.record.outputs[1].enrollment_id = ""
               /\ tret.record.outputs[1].amount > 0)
                => /\ tret.res.err = "ok" /\ Len(tret.res.txs) = 1
                   /\ tret.res.txs[1].action_type = "Redeem"
                   /\ tret.res.txs[1].sender_eid
                         = tret.record.inputs[1].enrollment_id
                   /\ tret.res.txs[1].recipient_eid = ""
                   /\ tret.res.txs[1].amount = tret.record.outputs[1].amount
                   /\ tret.res.txs[1].token_type = tret.record.outputs[1].type

\* C31 witness: alice's input and one output of 30 without an enrollment id
\* have given one Redeem of 30.
C31_Witness ==
    /\ tret.op = "TransactionRecords"
    /\ Len(tret.record.inputs) = 1 /\ Len(tret.record.outputs) = 1
    /\ tret.record.inputs[1].enrollment_id = "alice"
    /\ tret.record.outputs[1].enrollment_id = ""
    /\ Len(tret.res.txs) = 1 /\ tret.res.txs[1].action_type = "Redeem"
    /\ tret.res.txs[1].amount = 30

\* C32 as claimed: for each enrollment id of the record and each token type
\* of its outputs, Movements gives one movement of received minus sent when
\* the two differ and none when they are equal; no movement has amount 0.
C32_AsClaimed ==
    tret.op = "Movements"
        => /\ \A k \in 1..Len(tret.mv) : tret.mv[k].amount /= 0
           /\ \A eid \in SeqToSet(joinIOEIDs(tret.record)),
                 tt \in SeqToSet(TokenTypes(tret.record.outputs)) :
                 LET received == OutputTotal(tret.record, eid, tt)
                     sent == SumOver(tret.record.inputs,
                                {i \in 1..Len(tret.record.inputs) :
                                    /\ tret.record.inputs[i].enrollment_id = eid
                                    /\ tret.record.inputs[i].type = tt})
                     ks == {k \in 1..Len(tret.mv) :
                               /\ tret.mv[k].enrollment_id = eid
                               /\ tret.mv[k].token_type = tt}
                 IN  IF received = sent THEN ks = {}
                     ELSE /\ Cardinality(ks) = 1
                          /\ \A k \in ks : tret.mv[k].amount = received - sent

\* The first action index that has neither an input nor an output.
FirstGap(record) ==
    CHOOSE k \in 0..(Len(record.inputs) + Len(record.outputs)) :
        /\ k \notin ActionsOf(record)
        /\ \A j \in 0..(k - 1) : j \in ActionsOf(record)

\* The record without the inputs and outputs of the actions from k on.
Below(record, k) ==
    [anchor |-> record.anchor,
     inputs |-> SelectSeq(record.inputs, LAMBDA t : t.action_index < k),
     outputs |-> SelectSeq(record.outputs, LAMBDA t : t.action_index < k)]

\* C39: TransactionRecords ends after at most one pass of its loop per input
\* and output and one more; when it succeeds it has examined the action
\* indexes up to the first one without input and output, and its records
\* are those of the inputs and outputs below that index alone.
C39_StopsAtFirstGap ==
    tret.op = "TransactionRecords"
        => /\ tret.res.iterations
                 <= Len(tret.record.inputs) + Len(tret.record.outputs) + 1
           /\ tret.res.iterations <= FirstGap(tret.record) + 1
           /\ tret.res.err = "ok"
                 => /\ tret.res.iterations = FirstGap(tret.record) + 1
                    /\ tret.res.txs
                          = TransactionRecords(
                                Below(tret.record, FirstGap(tret.record)),
                                clock).txs
                    /\ Len(tret.res.txs)
                          <= Len(Below(tret.record,
                                       FirstGap(tret.record)).outputs)

\* C39 witness: the record has an input and two outputs of positive amount,
\* all of action 1, and nothing of action 0: the call has ended in its first
\* pass without a record.
C39_Witness ==
    /\ tret.op = "TransactionRecords" /\ tret.res.err = "ok"
    /\ tret.res.iterations = 1 /\ tret.res.txs = <<>>
    /\ Len(tret.record.outputs) = 2 /\ Len(tret.record.inputs) = 1
    /\ \A i \in 1..2 : tret.record.outputs[i].action_index = 1
                          /\ tret.record.outputs[i].amount > 0
    /\ tret.record.inputs[1].action_index = 1

\* C37: for every id list, repeated ids included, and every order in which
\* the rows arrive, GetTokens, ListAuditTokens and WhoDeletedTokens never
\* reach their "should not reach this point" panic: when the counter of rows
\* differs from the number of ids, a position is still empty and the call
\* returns NotFound.
C37_PanicsUnreachable ==
    \A ids \in InputLists :
        /\ \A rows \in RowOrders(GetTokensQuery(tokens, ids)) :
              GetTokens(ids, rows).err \in {"ok", "NotFound"}
        /\ \A rows \in RowOrders(ListAuditTokensQuery(tokens, ids)) :
              ListAuditTokens(ids, rows).err \in {"ok", "NotFound"}
        /\ \A rows \in RowOrders(WhoDeletedTokensQuery(tokens, ids)) :
              WhoDeletedTokens(ids, rows).err \in {"ok", "NotFound"}

\* C37 witness: T1:0 and T2:0 are live, owned and audited; on the list
\* [T1:0, T2:0, T1:0] GetTokens and WhoDeletedTokens count two rows for
\* three ids and return NotFound for the empty third position, and
\* ListAuditTokens counts three.
C37_Witness ==
    LET ids == <<<<"T1", 0>>, <<"T2", 0>>, <<"T1", 0>>>>
        live == GetTokensQuery(tokens, ids)
    IN  /\ Cardinality(live) = 2
        /\ Cardinality(ListAuditTokensQuery(tokens, ids)) = 2
        /\ \A rows \in RowOrders(live) :
              /\ GetTokens(ids, rows).err = "NotFound"
              /\ WhoDeletedTokens(ids, rows).err = "NotFound"
              /\ ListAuditTokens(ids, rows).err = "ok"

\* The first position of ids that holds an id of an earlier position, 0
\* when no id is repeated.
FirstRepeated(ids) ==
    LET rep == {j \in 1..Len(ids) : \E i \in 1..(j - 1) : ids[i] = ids[j]}
    IN  IF rep = {} THEN 0 ELSE CHOOSE j \in rep : \A k \in rep : j <= k

\* C38: on an id list that repeats an id and whose ids all resolve,
\* GetTokens and WhoDeletedTokens fail with NotFound for the id of the first
\* repeated position, whereas ListAuditTokens, GetTokenOutputs,
\* GetTokenInfoAndOutputs and GetCertifications succeed with the data of
\* ids[i] at every position i.
C38_RepeatedIds ==
    \A ids \in {l \in InputLists : FirstRepeated(l) /= 0} :
      LET n == Len(ids)
          p == FirstRepeated(ids)
          live == GetTokensQuery(tokens, ids)
          audited == ListAuditTokensQuery(tokens, ids)
          all == WhoDeletedTokensQuery(tokens, ids)
          out == GetTokenOutputs(tokens, ids, 0)
          info == GetTokenInfoAndOutputs(tokens, ids)
          cert == GetCertifications(certs, ids)
      IN
      /\ Unresolved(ids, live) = {}
            => \A rows \in RowOrders(live) :
                 LET res == GetTokens(ids, rows) IN
                 /\ res.err = "NotFound" /\ res.key = ids[p]
                 /\ res.tokens = <<>>
                 /\ GetTokensScan(ids, rows, [j \in 1..n |-> Nil], 0).tokens[p]
                       = Nil
      /\ Unresolved(ids, all) = {}
            => \A rows \in RowOrders(all) :
                 LET res == WhoDeletedTokens(ids, rows) IN
                 /\ res.err = "NotFound" /\ res.key = ids[p]
                 /\ res.spentBy = <<>> /\ res.isSpent = <<>>
      /\ Unresolved(ids, audited) = {}
            => \A rows \in RowOrders(audited) :
                 LET res == ListAuditTokens(ids, rows) IN
                 /\ res.err = "ok"
                 /\ res.tokens = [i \in 1..n |-> Token(RowOf(audited, ids[i]))]
      /\ NoOutput(tokens, ids) = {}
            => /\ out.err = "ok"
               /\ out.calls = [i \in 1..n |-> <<ids[i], LedgerOf(tokens, ids[i])>>]
      /\ Unresolved(ids, tokens) = {}
            => /\ info.err = "ok"
               /\ info.tokens = [i \in 1..n |-> LedgerOf(tokens, ids[i])]
      /\ (\A i \in 1..n : \E c \in certs : c.id = ids[i] /\ c.certification /= "")
            => /\ cert.err = "ok"
               /\ cert.certifications =
                    [i \in 1..n |->
                        (CHOOSE c \in certs : c.id = ids[i]).certification]

\* C38 witness: T1:0 is live, owned, audited and certified; on [T1:0, T1:0]
\* GetTokens and WhoDeletedTokens return NotFound for T1:0 and the four map
\* lookups return its data twice.
C38_Witness ==
    LET ids == <<<<"T1", 0>>, <<"T1", 0>>>>
        live == GetTokensQuery(tokens, ids)
    IN  /\ Cardinality(live) = 1
        /\ \A rows \in RowOrders(live) :
              /\ GetTokens(ids, rows).err = "NotFound"
              /\ GetTokens(ids, rows).key = <<"T1", 0>>
              /\ WhoDeletedTokens(ids, rows).err = "NotFound"
              /\ ListAuditTokens(ids, rows).tokens
                    = <<Token(RowOf(live, ids[1])), Token(RowOf(live, ids[1]))>>
        /\ GetTokenOutputs(tokens, ids, 0).err = "ok"
        /\ GetTokenInfoAndOutputs(tokens, ids).tokens = <<"LA", "LA">>
        /\ GetCertifications(certs, ids).certifications = <<"c1", "c1">>


\* The positions of the events of txID in the queue of listener l.
EventsOf(l, txID) == {i \in 1..Len(events[l]) : events[l][i].tx = txID}

\* C40: the events a listener holds for one tx-id are in the order in which
\* the backend applied their updates (seq is the position of the update in
\* the backend's log); so, once no SetStatus is under way, a listener that
\* received the event of the last update of the tx-id received it last, and
\* its last event for the tx-id carries the status of that update.
C40_AsClaimed ==
    \A l \in Listeners :
        /\ \A i, j \in 1..Len(events[l]) :
              (i < j /\ events[l][i].tx = events[l][j].tx)
                  => events[l][i].seq < events[l][j].seq
        /\ \A txID \in TxIDs :
              LET writes == {k \in 1..Len(applied) : applied[k].tx = txID}
                  top == CHOOSE k \in writes : \A w \in writes : w <= k
                  mine == EventsOf(l, txID)
                  lastEv == CHOOSE i \in mine : \A w \in mine : w <= i
              IN  (/\ \A x \in Executors : spc[x].at = "idle"
                   /\ writes /= {}
                   /\ \E i \in mine : events[l][i].seq = top)
                    => events[l][lastEv].status = applied[top].status

\* A step of CheckTTXDBView.Call of executor x: the executor moves from,
\* to or between the positions of the call.
CallStep(x) ==
    /\ spc'[x] /= spc[x]
    /\ spc[x].at \in CallPositions \/ spc'[x].at \in CallPositions

\* C33: no step of a call of the check changes the token store or the
\* transaction store.
C33_AsClaimed ==
    [][\A x \in Executors :
         CallStep(x) => /\ tokens' = tokens
                        /\ UNCHANGED <<ownership, requests, transactions,
                                       validations, cache>>]_vars

\* C33, amended: no step of a call of the check changes the transaction
\* store (records, statuses, requests, cache) or the ownership, and none
\* stores or removes a token; a step changes a token only when the default
\* owner wallet exists, and then only by marking deleted the tokens the
\* htlc wallet finds claimed, in one step, or expired, in the next, which
\* the call does whenever the loop over the records has not panicked and
\* before it enumerates the unspent.
C33_OnlyHtlcCleanup ==
    [][\A x \in Executors :
         CallStep(x) =>
           LET p == spc[x]
               n == spc'[x]
               claimed == p.at = "claimed" /\ n.at = "expired"
               expired == p.at = "expired" /\ n.at = "unspent"
               swept == IF claimed THEN n.htlc.claimed
                        ELSE IF expired THEN p.htlc.expired
                        ELSE {}
           IN  /\ UNCHANGED <<ownership, requests, transactions, validations,
                              cache, listeners, events>>
               /\ IDs(tokens') = IDs(tokens)
               /\ Cardinality(tokens') = Cardinality(tokens)
               /\ \A r \in tokens :
                     \/ r \in tokens'
                     \/ /\ ID(r) \in swept
                        /\ [r EXCEPT !.is_deleted = TRUE, !.spent_by = "htlc",
                                     !.spent_at = clock] \in tokens'
               /\ \A r \in tokens' : ID(r) \in swept => r.is_deleted
               /\ (p.at = "records" /\ n.at \in CallPositions)
                     => n.at \in {"records", "claimed"}
               /\ (p.at = "claimed" /\ n.at \in CallPositions)
                     => /\ n.htlc.wallet => n.at = "expired"
                        /\ ~n.htlc.wallet => n.at = "unspent"
               /\ n.at = "unspent" => p.at = "expired" \/ ~n.htlc.wallet
               /\ n.at = "query" => p.at = "unspent"]_vars

\* C33 witness: a call with a default owner wallet that found T1:0 claimed
\* has returned its messages; T1:0 is marked deleted by the cleanup and is
\* not among the unspent ids the call enumerated, T2:0 is.
C33_Witness ==
    /\ tret.op = "Call" /\ tret.err = "ok"
    /\ tret.htlc.wallet /\ tret.htlc.claimed = {<<"T1", 0>>}
    /\ \E r \in tokens : ID(r) = <<"T1", 0>> /\ r.is_deleted /\ r.spent_by = "htlc"
    /\ SeqToSet(tret.unspent) = {<<"T2", 0>>}

\* The text of the vault-versus-db message of a pair (vault status, record
\* status), empty for a pair without one.
FlaggedText(vc, status) ==
    IF vc = "Unknown" THEN "unknown for vault but not for the db"
    ELSE IF <<vc, status>> = <<"Valid", "Pending">>
    THEN "valid for vault but pending for the db"
    ELSE IF <<vc, status>> = <<"Valid", "Deleted">>
    THEN "valid for vault but deleted for the db"
    ELSE IF <<vc, status>> = <<"Invalid", "Confirmed">>
    THEN "invalid for vault but confirmed for the db"
    ELSE IF <<vc, status>> = <<"Invalid", "Pending">>
    THEN "invalid for vault but pending for the db"
    ELSE IF <<vc, status>> = <<"Busy", "Confirmed">>
    THEN "busy for vault but confirmed for the db"
    ELSE IF <<vc, status>> = <<"Busy", "Deleted">>
    THEN "busy for vault but deleted for the db"
    ELSE ""

IsVaultDB(m) ==
    \E vc \in ValidationCodes, status \in TxStatuses :
        m.text = FlaggedText(vc, status) /\ m.text /= ""

\* The messages of a returned call about txID that satisfy pred, in order.
MessagesOf(txID, pred(_)) ==
    SelectSeq(tret.msgs, LAMBDA m : m.subject = txID /\ pred(m))

\* The records of txID the call went through, in order.
CheckedRecords(txID) ==
    SelectSeq(tret.records, LAMBDA rec : rec.tx_id = txID)

\* C34: in a call that returned, the vault-versus-db messages about a tx-id
\* whose vault probe answered vc are, record by record, the message of
\* (vc, status of the record) for the records whose pair is one of
\* (unknown, any), (valid, pending), (valid, deleted), (invalid, confirmed),
\* (invalid, pending), (busy, confirmed), (busy, deleted), and no other: at
\* most one per record.  With a pending record, the vault valid and the
\* ledger valid, "valid for vault but pending for the db" is the only
\* message of the record.
C34_VaultDBFlags ==
    (tret.op = "Call" /\ tret.err = "ok") =>
        \A txID \in TxIDs :
            LET vc == tret.V[txID]
                recs == CheckedRecords(txID)
                flagged == SelectSeq(recs,
                               LAMBDA rec : FlaggedText(vc, rec.status) /= "")
                mine == MessagesOf(txID, IsVaultDB)
            IN  /\ vc = "Err" => mine = <<>>
                /\ vc /= "Err" =>
                     /\ Len(mine) = Len(flagged)
                     /\ \A i \in 1..Len(mine) :
                          mine[i].text = FlaggedText(vc, flagged[i].status)
                /\ (vc = "Valid" /\ tret.L[txID] = "Valid"
                        /\ \A i \in 1..Len(recs) : recs[i].status = "Pending")
                     => MessagesOf(txID, LAMBDA m : TRUE)
                          = [i \in 1..Len(recs) |->
                               Message("valid for vault but pending for the db",
                                       txID, "")]

\* C34 witness: a call has returned on the two pending records of T1 with
\* the vault and the ledger valid for T1: one message for each record.
C34_Witness ==
    /\ tret.op = "Call" /\ tret.err = "ok"
    /\ tret.V["T1"] = "Valid" /\ tret.L["T1"] = "Valid"
    /\ Len(CheckedRecords("T1")) = 2
    /\ \A i \in 1..2 : CheckedRecords("T1")[i].status = "Pending"
    /\ Len(MessagesOf("T1", IsVaultDB)) = 2

IsVaultLedger(m) ==
    m.text \in {"valid for vault but not for the ledger",
                "invalid for vault but not for the ledger",
                "unknown for vault but not for the ledger",
                "busy for vault but not for the ledger"}

\* The vault and the ledger disagree on a record of the given status.
LedgerDisagrees(vc, lVC, status) ==
    \/ vc = "Valid" /\ lVC /= "Valid"
    \/ vc = "Invalid" /\ lVC /= "Invalid"
          /\ ~(lVC = "Unknown" /\ status = "Deleted")
    \/ vc = "Unknown" /\ lVC /= "Unknown"
    \/ vc = "Busy" /\ lVC \notin {"Busy", "Unknown"}

\* C35: in a call that returned, the vault-versus-ledger messages about a
\* tx-id whose vault probe answered V are one for each record for which
\* V = valid and L /= valid, or V = invalid and L /= invalid unless L is
\* unknown and the record deleted, or V = unknown and L /= unknown, or
\* V = busy and L is neither busy nor unknown, where L is unknown when the
\* ledger's probe fails; each names the vault's and the ledger's status.
C35_VaultLedgerFlags ==
    (tret.op = "Call" /\ tret.err = "ok") =>
        \A txID \in TxIDs :
            LET vc == tret.V[txID]
                lVC == IF tret.L[txID] = "Err" THEN "Unknown" ELSE tret.L[txID]
                recs == CheckedRecords(txID)
                flagged == SelectSeq(recs,
                               LAMBDA rec : LedgerDisagrees(vc, lVC, rec.status))
                mine == MessagesOf(txID, IsVaultLedger)
            IN  IF vc = "Err" THEN mine = <<>>
                ELSE /\ Len(mine) = Len(flagged)
                     /\ \A i \in 1..Len(mine) :
                          /\ mine[i].arg = lVC
                          /\ \/ vc = "Valid" /\ mine[i].text = "valid for vault but not for the ledger"
                             \/ vc = "Invalid" /\ mine[i].text = "invalid for vault but not for the ledger"
                             \/ vc = "Unknown" /\ mine[i].text = "unknown for vault but not for the ledger"
                             \/ vc = "Busy" /\ mine[i].text = "busy for vault but not for the ledger"

\* C35 witness: a call has returned on the two records of T1 with the
\* vault busy and the ledger's probe failing, without a vault-versus-ledger
\* message for T1, and T2's valid vault status has its message for the
\* failing probe of the ledger.
C35_Witness ==
    /\ tret.op = "Call" /\ tret.err = "ok"
    /\ tret.V["T1"] = "Busy" /\ tret.L["T1"] = "Err"
    /\ Len(CheckedRecords("T1")) = 2
    /\ MessagesOf("T1", IsVaultLedger) = <<>>
    /\ tret.V["T2"] = "Valid" /\ tret.L["T2"] = "Err"
    /\ MessagesOf("T2", IsVaultLedger)
          = <<Message("valid for vault but not for the ledger", "T2", "Unknown")>>

IsContentMismatch(m) == m.text = "token content does not match"

\* C36: a call that gets past the cleanup enumerates the ids of the tokens
\* that are not deleted, one for each owner wallet of a token.  When
\* the token query fails, the call returns one "failed to query tokens"
\* message and no content message.  When it answers, the call returns only
\* if the answer has as many contents as there are ids, and then a content
\* message names an enumerated token if and only if the ledger bytes stored
\* for it equal no content of the answer, one message at each position of
\* such a token.
C36_UnspentReconciliation ==
    /\ [](tret.op = "Call" =>
            LET ids == tret.unspent
                q == tret.q
                asked == tret.stage \in {"query", "outputs"}
                mismatches == SelectSeq(tret.msgs, IsContentMismatch)
                failures == SelectSeq(tret.msgs,
                                LAMBDA m : m.text = "failed to query tokens")
                missing == SelectSeq(ids,
                               LAMBDA id : LedgerOf(tokens, id)
                                              \notin SeqToSet(q.content))
            IN  /\ tret.err = "ok" => asked
                /\ (tret.err = "ok" /\ q.err)
                      => Len(failures) = 1 /\ mismatches = <<>>
                /\ (tret.err = "ok" /\ ~q.err)
                      => /\ Len(ids) = Len(q.content)
                         /\ failures = <<>>
                         /\ Len(mismatches) = Len(missing)
                         /\ \A i \in 1..Len(mismatches) :
                              mismatches[i]
                                = Message("token content does not match",
                                          ToString(missing[i]), ToString(i - 1))
                /\ (asked /\ ~q.err /\ Len(ids) /= Len(q.content))
                      => tret.err = "Panic")
    /\ [][\A x \in Executors :
            (spc[x].at = "unspent" /\ spc'[x].at = "query") =>
               LET ids == spc'[x].unspent
               IN  /\ SeqToSet(ids)
                        = {ID(r) : r \in {t \in tokens : ~t.is_deleted}}
                   /\ \A r \in tokens :
                        Cardinality({i \in 1..Len(ids) : ids[i] = ID(r)})
                          = IF ~r.is_deleted
                            THEN IF \E o \in ownership : o[1] = ID(r)
                                 THEN Cardinality({o \in ownership : o[1] = ID(r)})
                                 ELSE 1
                            ELSE 0]_vars

\* C36 witness: a call on the unspent T1:0 and T2:0, the second of two
\* wallets, got an answer with three contents that holds the ledger bytes of
\* T2:0 and not those of T1:0, and returned one content message, for T1:0.
C36_Witness ==
    /\ tret.op = "Call" /\ tret.err = "ok" /\ ~tret.q.err
    /\ SeqToSet(tret.unspent) = {<<"T1", 0>>, <<"T2", 0>>}
    /\ Len(tret.q.content) = 3
    /\ "LC" \in SeqToSet(tret.q.content) /\ "LA" \notin SeqToSet(tret.q.content)
    /\ SelectSeq(tret.msgs, IsContentMismatch)
         = <<Message("token content does not match",
                     ToString(<<"T1", 0>>), "0")>>

====
